---------------------------- MODULE Spec2Model ----------------------------
(***************************************************************************)
(* Block ciphers (AES with run-time dispatch, Kuznyechik, Magma) and the   *)
(* block modes built on them (CBC, CFB, CFB-8, OFB, PCBC, IGE, CTR).       *)
(*                                                                         *)
(* Scale.  A byte of the model has 2 bits and a block has 2 bytes, so that *)
(* every block, IV and key can be enumerated.  A 128-bit register of the   *)
(* hardware implementation is a number 0..15 made of four 1-bit words.     *)
(* The structure of every routine (which key is used in which round, what  *)
(* is XORed with what, in which order state is updated) is that of the     *)
(* source.                                                                 *)
(***************************************************************************)
EXTENDS Integers, Sequences, FiniteSets, TLC

VARIABLES
    \* a block mode at work
    encrypt,          \* the mode's Encrypt instance (cipher, iv / x, y)
    decrypt,          \* the mode's Decrypt instance
    pt,               \* blocks handed to the encrypting side so far
    ct,               \* blocks the encrypting side produced
    rt,               \* blocks the decrypting side produced
    trace,            \* chaining state of Encrypt: at creation, then after every block
    given_iv,         \* the IV both sides were created with
    \* the dispatching AES types at work
    cpu,              \* what CPUID reports: [aes, ssse3]
    aes_intrinsics,   \* cache of the token made by cpufeatures::new!(aes_intrinsics, "aes")
    aes_ssse3_cpuid,  \* cache of the token made by cpufeatures::new!(aes_ssse3_cpuid, "aes", "ssse3")
    objs,             \* the dispatching cipher objects that exist
    origin,           \* for every object: the type and key new() was given; moved away?
    ctrs,             \* the CTR objects made by from_block_cipher, with what each one read
    call,             \* the call that has just returned (what on, which path, input, output),
                      \* or NoCall once the caller has gone on
    probes,           \* how often CPUID was queried
    expansions,       \* how often a key schedule was computed
    \* a cipher at work on a buffer
    cipher,           \* the cipher object
    inbuf,            \* the caller's buffer
    outbuf,           \* what the batch call wrote for it
    singles,          \* what the single-block calls made so far wrote, block by block
    op                \* "idle", or the direction of the calls under way

modeVars == <<encrypt, decrypt, pt, ct, rt, trace, given_iv>>

dispatchVars ==
    <<cpu, aes_intrinsics, aes_ssse3_cpuid, objs, origin, ctrs, call, probes, expansions>>

batchVars == <<cipher, inbuf, outbuf, singles, op>>

vars == <<modeVars, dispatchVars, batchVars>>

(***************************************************************************)
(* Bytes, blocks, registers                                                *)
(***************************************************************************)
Byte == 0..3

BlockSize == 2

Block == [1..BlockSize -> Byte]

Reg == 0..15

RECURSIVE XorBits(_, _, _)
XorBits(a, b, n) ==
    IF n = 0 THEN 0
    ELSE (((a % 2) + (b % 2)) % 2) + (2 * XorBits(a \div 2, b \div 2, n - 1))

\* ^ on u8
ByteXor(a, b) == XorBits(a, b, 2)

\* _mm_xor_si128
_mm_xor_si128(a, b) == XorBits(a, b, 4)

\* _mm_loadu_si128: the bytes of a block, lowest address in the lowest bits
_mm_loadu_si128(block) == block[1] + (4 * block[2])

\* _mm_storeu_si128
_mm_storeu_si128(r) == <<r % 4, r \div 4>>

\* Block::default()
DefaultBlock == <<0, 0>>

(***************************************************************************)
(* The AES round instructions, at the scale of the model: the state is one *)
(* 4-bit cell, SubBytes is a 4-bit S-box, ShiftRows moves nothing in a     *)
(* one-cell state, MixColumns is multiplication by x in GF(16).            *)
(***************************************************************************)
SBox == <<14, 4, 13, 1, 2, 15, 11, 8, 3, 10, 6, 12, 5, 9, 0, 7>>

SubBytes(r) == SBox[r + 1]

InvSubBytes(r) == CHOOSE s \in Reg : SBox[s + 1] = r

\* multiplication by x modulo x^4 + x + 1: linear over GF(2)
MixColumns(r) == IF r >= 8 THEN _mm_xor_si128((2 * r) % 16, 3) ELSE 2 * r

InvMixColumns(r) == CHOOSE s \in Reg : MixColumns(s) = r

_mm_aesenc_si128(b, k) == _mm_xor_si128(MixColumns(SubBytes(b)), k)

_mm_aesenclast_si128(b, k) == _mm_xor_si128(SubBytes(b), k)

_mm_aesdec_si128(b, k) == _mm_xor_si128(InvMixColumns(InvSubBytes(b)), k)

_mm_aesdeclast_si128(b, k) == _mm_xor_si128(InvSubBytes(b), k)

_mm_aesimc_si128(k) == InvMixColumns(k)

\* _mm_slli_si128(t, 0x4): shift left by one word
_mm_slli_si128(t) == (2 * t) % 16

\* word i (0..3) of a register
Word(t, i) == (t \div (2 ^ i)) % 2

\* _mm_shuffle_epi32(t, 0xff / 0xaa / 0x55): word i in all four words
Broadcast(t, i) == 15 * Word(t, i)

\* _mm_aeskeygenassist_si128(t, rcon):
\*   <<SubWord(X1), Rot(SubWord(X1)) ^ rcon, SubWord(X3), Rot(SubWord(X3)) ^ rcon>>
\* with the S-box applied to the register and the round constant's low bit
_mm_aeskeygenassist_si128(t, rcon) ==
    LET s1 == Word(SubBytes(t), 1)
        s3 == Word(SubBytes(t), 3)
        rc == rcon % 2
    IN  s1 + (2 * ((s1 + rc) % 2)) + (4 * s3) + (8 * ((s3 + rc) % 2))

\* t ^ (t << 1 word) ^ (t << 2 words) ^ (t << 3 words)
FoldShifts(t) ==
    LET a == _mm_slli_si128(t)
        b == _mm_slli_si128(a)
        c == _mm_slli_si128(b)
    IN  _mm_xor_si128(_mm_xor_si128(_mm_xor_si128(t, a), b), c)

(***************************************************************************)
(* ni: the hardware implementation (AES-NI).  Round keys are a sequence;   *)
(* RK(keys, i) is keys[i] of the source (the source counts from 0).        *)
(***************************************************************************)
RK(keys, i) == keys[i + 1]

\* an expand_round! that applies the inverse mix to the last round key as well
aes128_expand_round_imc_all(ks, pos, round) ==
    LET t1 == RK(ks.enc, pos - 1)
        t2 == Broadcast(_mm_aeskeygenassist_si128(t1, round), 3)
        n1 == _mm_xor_si128(FoldShifts(t1), t2)
    IN  [enc |-> Append(ks.enc, n1), dec |-> Append(ks.dec, _mm_aesimc_si128(n1))]

\* aes128.rs expand_round!: enc_keys[pos], dec_keys[pos] from enc_keys[pos - 1]
aes128_expand_round(ks, pos, round) ==
    LET t1 == RK(ks.enc, pos - 1)
        t2 == Broadcast(_mm_aeskeygenassist_si128(t1, round), 3)
        n1 == _mm_xor_si128(FoldShifts(t1), t2)
    IN  [enc |-> Append(ks.enc, n1),
         dec |-> Append(ks.dec, IF pos # 10 THEN _mm_aesimc_si128(n1) ELSE n1)]

Rcon128 == <<1, 2, 4, 8, 16, 32, 64, 128, 27, 54>>

RECURSIVE aes128_expand_from(_, _)
aes128_expand_from(ks, pos) ==
    IF pos > 10 THEN ks
    ELSE aes128_expand_from(aes128_expand_round(ks, pos, Rcon128[pos]), pos + 1)

\* aes128.rs expand(key) -> (enc_keys, dec_keys): 11 round keys each
aes128_expand(key) ==
    LET k == _mm_loadu_si128(key)
    IN  aes128_expand_from([enc |-> <<k>>, dec |-> <<k>>], 1)

\* aes192.rs expand_round!(t1, t3, round) -> (t1, t3)
aes192_expand_round(t1, t3, round) ==
    LET t2 == Broadcast(_mm_aeskeygenassist_si128(t3, round), 1)
        n1 == _mm_xor_si128(FoldShifts(t1), t2)
        t4 == _mm_slli_si128(t3)
        n3 == _mm_xor_si128(_mm_xor_si128(t3, t4), Broadcast(n1, 3))
    IN  <<n1, n3>>

\* aes192.rs shuffle!(a, b, imm): _mm_shuffle_pd on the two halves of a register
shuffle(a, b, imm) ==
    (IF imm % 2 = 1 THEN a \div 4 ELSE a % 4)
    + (4 * (IF imm \div 2 = 1 THEN b \div 4 ELSE b % 4))

\* aes192.rs expand: three round keys come out of two expand_round! calls,
\*   let (k1_2, k2r) = expand_round!(k0, k1l, round);
\*   k1 = shuffle!(k1l, k1_2, 0); k2 = shuffle!(k1_2, k2r, 1);
\*   let (k3, k4l) = expand_round!(k1_2, k2r, 2 * round);
aes192_expand_pair(st, round) ==
    LET a == aes192_expand_round(st.t1, st.t3, round)
        b == aes192_expand_round(a[1], a[2], 2 * round)
    IN  [enc |-> st.enc \o <<shuffle(st.t3, a[1], 0), shuffle(a[1], a[2], 1), b[1]>>,
         t1  |-> b[1],
         t3  |-> b[2]]

RECURSIVE aes192_expand_from(_, _)
aes192_expand_from(st, round) ==
    IF round > 64 THEN st
    ELSE aes192_expand_from(aes192_expand_pair(st, round), round * 4)

\* aes192.rs expand(key) -> (enc_keys, dec_keys): 13 round keys each
aes192_expand(key) ==
    LET k0  == _mm_loadu_si128(<<key[1], key[2]>>)
        k1l == _mm_loadu_si128(<<key[3], 0>>)
        enc == aes192_expand_from([enc |-> <<k0>>, t1 |-> k0, t3 |-> k1l], 1).enc
    IN  [enc |-> enc,
         dec |-> [i \in 1..13 |-> IF i \in {1, 13} THEN enc[i]
                                  ELSE _mm_aesimc_si128(enc[i])] \o << >>]

\* aes256.rs expand_round!: enc_keys[pos], enc_keys[pos + 1] and their dec_keys
aes256_expand_round(ks, pos, round) ==
    LET t1 == RK(ks.enc, pos - 2)
        t3 == RK(ks.enc, pos - 1)
        t2 == Broadcast(_mm_aeskeygenassist_si128(t3, round), 3)
        n1 == _mm_xor_si128(FoldShifts(t1), t2)
        u2 == Broadcast(_mm_aeskeygenassist_si128(n1, 0), 2)
        n3 == _mm_xor_si128(FoldShifts(t3), u2)
    IN  [enc |-> ks.enc \o <<n1, n3>>,
         dec |-> ks.dec \o <<_mm_aesimc_si128(n1), _mm_aesimc_si128(n3)>>]

\* aes256.rs expand_round_last!: enc_keys[pos] = dec_keys[pos]
aes256_expand_round_last(ks, pos, round) ==
    LET t1 == RK(ks.enc, pos - 2)
        t3 == RK(ks.enc, pos - 1)
        t2 == Broadcast(_mm_aeskeygenassist_si128(t3, round), 3)
        n1 == _mm_xor_si128(FoldShifts(t1), t2)
    IN  [enc |-> Append(ks.enc, n1), dec |-> Append(ks.dec, n1)]

Rcon256 == <<1, 2, 4, 8, 16, 32>>

RECURSIVE aes256_expand_from(_, _)
aes256_expand_from(ks, pos) ==
    IF pos > 12 THEN aes256_expand_round_last(ks, 14, 64)
    ELSE aes256_expand_from(aes256_expand_round(ks, pos, Rcon256[pos \div 2]), pos + 2)

\* aes256.rs expand(key) -> (enc_keys, dec_keys): 15 round keys each
aes256_expand(key) ==
    LET k1 == _mm_loadu_si128(<<key[1], key[2]>>)
        k2 == _mm_loadu_si128(<<key[3], key[4]>>)
    IN  aes256_expand_from([enc |-> <<k1, k2>>, dec |-> <<k1, _mm_aesimc_si128(k2)>>], 2)

RECURSIVE aesenc_from(_, _, _, _)
aesenc_from(keys, b, i, last) ==
    IF i > last THEN b
    ELSE LET nb == _mm_aesenc_si128(b, RK(keys, i))
         IN  IF nb \in Reg THEN aesenc_from(keys, nb, i + 1, last) ELSE nb

\* an encrypt1 that runs one middle round too few
encrypt1_round_short(keys, block) ==
    LET last == Len(keys) - 1
        b0   == _mm_xor_si128(_mm_loadu_si128(block), RK(keys, 0))
        b1   == aesenc_from(keys, b0, 1, last - 2)
    IN  _mm_storeu_si128(_mm_aesenclast_si128(b1, RK(keys, last)))

\* encrypt1(keys, block): keys[0], then keys[1] .. keys[last - 1], then keys[last]
encrypt1(keys, block) ==
    LET last == Len(keys) - 1
        b0   == _mm_xor_si128(_mm_loadu_si128(block), RK(keys, 0))
        b1   == aesenc_from(keys, b0, 1, last - 1)
    IN  _mm_storeu_si128(_mm_aesenclast_si128(b1, RK(keys, last)))

RECURSIVE aesdec_from(_, _, _)
aesdec_from(keys, b, i) ==
    IF i < 1 THEN b
    ELSE LET nb == _mm_aesdec_si128(b, RK(keys, i))
         IN  IF nb \in Reg THEN aesdec_from(keys, nb, i - 1) ELSE nb

\* decrypt1(keys, block): keys[last], then keys[last - 1] .. keys[1], then keys[0]
decrypt1(keys, block) ==
    LET last == Len(keys) - 1
        b0   == _mm_xor_si128(_mm_loadu_si128(block), RK(keys, last))
        b1   == aesdec_from(keys, b0, last - 1)
    IN  _mm_storeu_si128(_mm_aesdeclast_si128(b1, RK(keys, 0)))

\* ni::$name::new(key)
ni_new(name, key) ==
    LET ks == CASE name = "Aes128" -> aes128_expand(key)
                [] name = "Aes192" -> aes192_expand(key)
                [] name = "Aes256" -> aes256_expand(key)
    IN  [encrypt_keys |-> ks.enc, decrypt_keys |-> ks.dec]

\* ni::$name::encrypt_block_inout
ni_encrypt_block_inout(self, block) == encrypt1(self.encrypt_keys, block)

\* ni::$name::decrypt_block_inout
ni_decrypt_block_inout(self, block) == decrypt1(self.decrypt_keys, block)

(***************************************************************************)
(* ni: eight blocks at a time (Block8).  load8 .. store8 are the lane-wise *)
(* helpers of ni/utils.rs.                                                 *)
(***************************************************************************)
Lanes8 == 1..8

load8(blocks) == [j \in Lanes8 |-> _mm_loadu_si128(blocks[j])] \o << >>

store8(b) == [j \in Lanes8 |-> _mm_storeu_si128(b[j])] \o << >>

xor8(b, key) == [j \in Lanes8 |-> _mm_xor_si128(b[j], key)] \o << >>

aesenc8(b, key) == [j \in Lanes8 |-> _mm_aesenc_si128(b[j], key)] \o << >>

aesenclast8(b, key) == [j \in Lanes8 |-> _mm_aesenclast_si128(b[j], key)] \o << >>

aesdec8(b, key) == [j \in Lanes8 |-> _mm_aesdec_si128(b[j], key)] \o << >>

aesdeclast8(b, key) == [j \in Lanes8 |-> _mm_aesdeclast_si128(b[j], key)] \o << >>

RECURSIVE aesenc8_from(_, _, _, _)
aesenc8_from(keys, b, i, last) ==
    IF i > last THEN b
    ELSE LET nb == aesenc8(b, RK(keys, i))
         IN  IF nb \in [Lanes8 -> Reg] THEN aesenc8_from(keys, nb, i + 1, last) ELSE nb

\* an encrypt8 whose last lane misses the final round
encrypt8_last_lane_short(keys, blocks) ==
    LET last == Len(keys) - 1
        b0   == xor8(load8(blocks), RK(keys, 0))
        b1   == aesenc8_from(keys, b0, 1, last - 1)
        b2   == aesenclast8(b1, RK(keys, last))
    IN  store8([b2 EXCEPT ![8] = b1[8]])

\* encrypt8(keys, blocks)
encrypt8(keys, blocks) ==
    LET last == Len(keys) - 1
        b0   == xor8(load8(blocks), RK(keys, 0))
        b1   == aesenc8_from(keys, b0, 1, last - 1)
    IN  store8(aesenclast8(b1, RK(keys, last)))

RECURSIVE aesdec8_from(_, _, _)
aesdec8_from(keys, b, i) ==
    IF i < 1 THEN b
    ELSE LET nb == aesdec8(b, RK(keys, i))
         IN  IF nb \in [Lanes8 -> Reg] THEN aesdec8_from(keys, nb, i - 1) ELSE nb

\* decrypt8(keys, blocks)
decrypt8(keys, blocks) ==
    LET last == Len(keys) - 1
        b0   == xor8(load8(blocks), RK(keys, last))
        b1   == aesdec8_from(keys, b0, last - 1)
    IN  store8(aesdeclast8(b1, RK(keys, 0)))

(***************************************************************************)
(* InOutBuf::process_chunks::<W>(state, pre_fn, post_fn, gen_fn, gen_tail) *)
(* with the hooks of encrypt_blocks / decrypt_blocks (pre_fn selects the   *)
(* input, post_fn does nothing): the buffer is cut into full chunks of W   *)
(* blocks, each handed to gen_fn, and the remaining Len mod W blocks,      *)
(* handed to gen_tail in one call.  process_chunks gives the chunks in     *)
(* order; the caller's closures are applied where it is called, and        *)
(* write_chunks puts their outputs back in place.                          *)
(***************************************************************************)
Chunk(blocks, first, n) == SubSeq(blocks, first, first + n - 1)

process_chunks(W, blocks) ==
    LET full == Len(blocks) \div W
        rest == Len(blocks) % W
    IN  ([c \in 1..full |-> Chunk(blocks, ((c - 1) * W) + 1, W)] \o << >>)
        \o (IF rest = 0 THEN << >> ELSE <<Chunk(blocks, (full * W) + 1, rest)>>)

RECURSIVE write_chunks(_)
write_chunks(outs) ==
    IF outs = << >> THEN << >> ELSE Head(outs) \o write_chunks(Tail(outs))

\* ni.rs: the tail closure, |keys, chunk| for block in chunk { encrypt1(keys, block) }
ni_encrypt_tail(keys, chunk) == [j \in 1..Len(chunk) |-> encrypt1(keys, chunk[j])]

ni_decrypt_tail(keys, chunk) == [j \in 1..Len(chunk) |-> decrypt1(keys, chunk[j])]

NiParBlocks == 8

\* ni::$name::encrypt_blocks_with_pre
ni_encrypt_blocks_with_pre(self, blocks) ==
    LET chunks == process_chunks(NiParBlocks, blocks)
    IN  write_chunks([c \in 1..Len(chunks) |->
            IF Len(chunks[c]) = NiParBlocks THEN encrypt8(self.encrypt_keys, chunks[c])
            ELSE ni_encrypt_tail(self.encrypt_keys, chunks[c])] \o << >>)

\* ni::$name::decrypt_blocks_with_pre
ni_decrypt_blocks_with_pre(self, blocks) ==
    LET chunks == process_chunks(NiParBlocks, blocks)
    IN  write_chunks([c \in 1..Len(chunks) |->
            IF Len(chunks[c]) = NiParBlocks THEN decrypt8(self.decrypt_keys, chunks[c])
            ELSE ni_decrypt_tail(self.decrypt_keys, chunks[c])] \o << >>)

(***************************************************************************)
(* soft: the constant-time (fixsliced) AES.  soft/fixslice64.rs holds the  *)
(* batch transforms; they are modelled from their contract: the batch of   *)
(* FixsliceBlocks blocks is transposed into bit planes (plane i holds bit  *)
(* i of every block of the batch), every round works on the planes, and    *)
(* the round keys are kept in the same transposed form.                    *)
(***************************************************************************)
FixsliceBlocks == 4

BatchLanes == 1..FixsliceBlocks

\* BatchBlocks::default()
DefaultBatch == <<DefaultBlock, DefaultBlock, DefaultBlock, DefaultBlock>>

\* the 4 x 4 bit transpose: plane i, bit j  <->  block j, bit i
Plane(regs, i) ==
    Word(regs[1], i) + (2 * Word(regs[2], i)) + (4 * Word(regs[3], i))
    + (8 * Word(regs[4], i))

bitslice(regs) == <<Plane(regs, 0), Plane(regs, 1), Plane(regs, 2), Plane(regs, 3)>>

inv_bitslice(planes) == bitslice(planes)

\* the round steps of the fixsliced state: each one is the AES step on every
\* block held in the planes
fix_sub_bytes(planes) ==
    LET regs == inv_bitslice(planes)
    IN  bitslice(<<SubBytes(regs[1]), SubBytes(regs[2]),
                   SubBytes(regs[3]), SubBytes(regs[4])>>)

fix_inv_sub_bytes(planes) ==
    LET regs == inv_bitslice(planes)
    IN  bitslice(<<InvSubBytes(regs[1]), InvSubBytes(regs[2]),
                   InvSubBytes(regs[3]), InvSubBytes(regs[4])>>)

fix_mix_columns(planes) ==
    LET regs == inv_bitslice(planes)
    IN  bitslice(<<MixColumns(regs[1]), MixColumns(regs[2]),
                   MixColumns(regs[3]), MixColumns(regs[4])>>)

fix_inv_mix_columns(planes) ==
    LET regs == inv_bitslice(planes)
    IN  bitslice(<<InvMixColumns(regs[1]), InvMixColumns(regs[2]),
                   InvMixColumns(regs[3]), InvMixColumns(regs[4])>>)

add_round_key(planes, rkey) ==
    <<_mm_xor_si128(planes[1], rkey[1]), _mm_xor_si128(planes[2], rkey[2]),
      _mm_xor_si128(planes[3], rkey[3]), _mm_xor_si128(planes[4], rkey[4])>>

\* the round keys in the form the rounds use them: each one broadcast to the
\* lanes of a batch and transposed
fixslice_round_keys(enc) ==
    [r \in 1..Len(enc) |-> bitslice(<<enc[r], enc[r], enc[r], enc[r]>>)] \o << >>

\* aes128_key_schedule / aes192_key_schedule / aes256_key_schedule: the AES round
\* keys of the key, transposed
fixslice_key_schedule(name, key) ==
    fixslice_round_keys(CASE name = "Aes128" -> aes128_expand(key).enc
                          [] name = "Aes192" -> aes192_expand(key).enc
                          [] name = "Aes256" -> aes256_expand(key).enc)

Planes == [1..4 -> Reg]

RECURSIVE fixslice_rounds(_, _, _, _)
fixslice_rounds(rkeys, st, i, last) ==
    IF i > last THEN st
    ELSE LET nst == add_round_key(fix_mix_columns(fix_sub_bytes(st)),
                                  RK(rkeys, i))
         IN  IF nst \in Planes THEN fixslice_rounds(rkeys, nst, i + 1, last) ELSE nst

\* aes128_encrypt / aes192_encrypt / aes256_encrypt (keys, &BatchBlocks) -> BatchBlocks
fixslice_encrypt(rkeys, blocks) ==
    LET last == Len(rkeys) - 1
        st0  == add_round_key(bitslice(<<_mm_loadu_si128(blocks[1]), _mm_loadu_si128(blocks[2]),
                                         _mm_loadu_si128(blocks[3]), _mm_loadu_si128(blocks[4])>>),
                              RK(rkeys, 0))
        st1  == fixslice_rounds(rkeys, st0, 1, last - 1)
        st2  == add_round_key(fix_sub_bytes(st1), RK(rkeys, last))
        regs == inv_bitslice(st2)
    IN  <<_mm_storeu_si128(regs[1]), _mm_storeu_si128(regs[2]),
          _mm_storeu_si128(regs[3]), _mm_storeu_si128(regs[4])>>

RECURSIVE fixslice_inv_rounds(_, _, _)
fixslice_inv_rounds(rkeys, st, i) ==
    IF i < 1 THEN st
    ELSE LET nst == fix_inv_sub_bytes(
                        fix_inv_mix_columns(add_round_key(st, RK(rkeys, i))))
         IN  IF nst \in Planes THEN fixslice_inv_rounds(rkeys, nst, i - 1) ELSE nst

\* aes128_decrypt / aes192_decrypt / aes256_decrypt (keys, &BatchBlocks) -> BatchBlocks
fixslice_decrypt(rkeys, blocks) ==
    LET last == Len(rkeys) - 1
        st0  == add_round_key(bitslice(<<_mm_loadu_si128(blocks[1]), _mm_loadu_si128(blocks[2]),
                                         _mm_loadu_si128(blocks[3]), _mm_loadu_si128(blocks[4])>>),
                              RK(rkeys, last))
        st1  == fixslice_inv_rounds(rkeys, fix_inv_sub_bytes(st0), last - 1)
        st2  == add_round_key(st1, RK(rkeys, 0))
        regs == inv_bitslice(st2)
    IN  <<_mm_storeu_si128(regs[1]), _mm_storeu_si128(regs[2]),
          _mm_storeu_si128(regs[3]), _mm_storeu_si128(regs[4])>>

\* soft::$name::new(key)
soft_new(name, key) == [keys |-> fixslice_key_schedule(name, key)]

\* soft::$name::encrypt_block_inout: blocks[0] = in; out = encrypt(keys, blocks)[0]
soft_encrypt_block_inout(self, block) ==
    LET blocks == [DefaultBatch EXCEPT ![1] = block]
    IN  fixslice_encrypt(self.keys, blocks)[1]

\* soft::$name::decrypt_block_inout
soft_decrypt_block_inout(self, block) ==
    LET blocks == [DefaultBatch EXCEPT ![1] = block]
    IN  fixslice_decrypt(self.keys, blocks)[1]

\* a padding that repeats the first block of the chunk in the free slots
PadBatchRepeating(chunk) ==
    [j \in BatchLanes |-> IF j <= Len(chunk) THEN chunk[j] ELSE chunk[1]] \o << >>

\* blocks[..n].copy_from_slice(chunk.get_in()) into BatchBlocks::default()
PadBatch(chunk) ==
    [j \in BatchLanes |-> IF j <= Len(chunk) THEN chunk[j] ELSE DefaultBlock] \o << >>

\* soft.rs: the tail closure of encrypt_blocks_with_pre
soft_encrypt_tail(keys, chunk) ==
    LET n   == Len(chunk)
        res == fixslice_encrypt(keys, PadBatch(chunk))
    IN  [j \in 1..n |-> res[j]]

\* soft.rs: the tail closure of decrypt_blocks_with_pre
soft_decrypt_tail(keys, chunk) ==
    LET n   == Len(chunk)
        res == fixslice_decrypt(keys, PadBatch(chunk))
    IN  [j \in 1..n |-> res[j]]

\* soft::$name::encrypt_blocks_with_pre
soft_encrypt_blocks_with_pre(self, blocks) ==
    LET chunks == process_chunks(FixsliceBlocks, blocks)
    IN  write_chunks([c \in 1..Len(chunks) |->
            IF Len(chunks[c]) = FixsliceBlocks THEN fixslice_encrypt(self.keys, chunks[c])
            ELSE soft_encrypt_tail(self.keys, chunks[c])] \o << >>)

\* soft::$name::decrypt_blocks_with_pre
soft_decrypt_blocks_with_pre(self, blocks) ==
    LET chunks == process_chunks(FixsliceBlocks, blocks)
    IN  write_chunks([c \in 1..Len(chunks) |->
            IF Len(chunks[c]) = FixsliceBlocks THEN fixslice_decrypt(self.keys, chunks[c])
            ELSE soft_decrypt_tail(self.keys, chunks[c])] \o << >>)

(***************************************************************************)
(* Kuznyechik, SSE2 backend (kuznyechik/src/sse2/mod.rs), at the scale of  *)
(* the model: P is a permutation of the byte values, the linear layer L is *)
(* a bijective GF(2)-linear map of the register, and the tables combine    *)
(* them exactly as consts.rs does: ENC_TABLE[pos][v] = L(P[v] at pos),     *)
(* DEC_TABLE[pos][v] = L^-1(P_INV[v] at pos).                              *)
(***************************************************************************)
P == <<2, 0, 3, 1>>

P_INV == [v \in 1..4 |-> CHOOSE w \in 0..3 : P[w + 1] = v - 1] \o << >>

KuzL(r) == _mm_xor_si128(r, MixColumns(r))

KuzLInv(r) == CHOOSE q \in Reg : KuzL(q) = r

\* value v in byte position pos (0-based) of an otherwise zero block
AtPos(v, pos) == v * (4 ^ pos)

ENC_TABLE == <<[v \in 1..4 |-> KuzL(AtPos(P[v], 0))] \o << >>,
               [v \in 1..4 |-> KuzL(AtPos(P[v], 1))] \o << >> >>

DEC_TABLE == <<[v \in 1..4 |-> KuzLInv(AtPos(P_INV[v], 0))] \o << >>,
               [v \in 1..4 |-> KuzLInv(AtPos(P_INV[v], 1))] \o << >> >>

\* RKEY_GEN[i]: the i-th iteration constant, L applied to i + 1 in the last byte
RKEY_GEN(i) == KuzL(AtPos(((i + 1) % 4), 1))

\* sse2::sub_bytes(block, sbox): every byte replaced through sbox
sub_bytes(block, sbox) ==
    LET sb == _mm_storeu_si128(block)
    IN  _mm_loadu_si128(<<sbox[sb[1] + 1], sbox[sb[2] + 1]>>)

\* sse2::transform(block, table): xor of the table rows selected by (position, byte)
transform(block, table) ==
    LET sb == _mm_storeu_si128(block)
    IN  _mm_xor_si128(table[1][sb[1] + 1], table[2][sb[2] + 1])

\* one pass of the inner loop of new(): two Feistel steps
kuz_feistel(k, cidx) ==
    LET t1 == transform(_mm_xor_si128(k[1], RKEY_GEN(cidx)), ENC_TABLE)
        k2 == _mm_xor_si128(k[2], t1)
        t2 == transform(_mm_xor_si128(k2, RKEY_GEN(cidx + 1)), ENC_TABLE)
        k1 == _mm_xor_si128(k[1], t2)
    IN  <<k1, k2>>

RECURSIVE kuz_feistel_n(_, _, _)
kuz_feistel_n(k, cidx, n) ==
    IF n = 0 THEN k
    ELSE LET nk == kuz_feistel(k, cidx)
         IN  IF nk \in Reg \X Reg THEN kuz_feistel_n(nk, cidx + 2, n - 1) ELSE nk

\* Kuznyechik::new(key) of the sse2 backend
kuz_new(key) ==
    LET p0  == <<_mm_loadu_si128(<<key[1], key[2]>>), _mm_loadu_si128(<<key[3], key[4]>>)>>
        p1  == kuz_feistel_n(p0, 0, 4)
        p2  == kuz_feistel_n(p1, 8, 4)
        p3  == kuz_feistel_n(p2, 16, 4)
        p4  == kuz_feistel_n(p3, 24, 4)
        enc == p0 \o p1 \o p2 \o p3 \o p4
        dec == [j \in 1..8 |-> transform(sub_bytes(RK(enc, 8 - (j - 1)), P), DEC_TABLE)]
               \o << >>
    IN  [enc_keys |-> enc, dec_keys |-> dec]

RECURSIVE kuz_enc_rounds(_, _, _)
kuz_enc_rounds(k, b, i) ==
    IF i > 8 THEN b
    ELSE LET nb == transform(_mm_xor_si128(b, RK(k, i)), ENC_TABLE)
         IN  IF nb \in Reg THEN kuz_enc_rounds(k, nb, i + 1) ELSE nb

\* sse2: encrypt_block_inout
kuz_encrypt_block_inout(self, block) ==
    LET b == kuz_enc_rounds(self.enc_keys, _mm_loadu_si128(block), 0)
    IN  _mm_storeu_si128(_mm_xor_si128(b, RK(self.enc_keys, 9)))

RECURSIVE kuz_dec_rounds(_, _, _)
kuz_dec_rounds(dk, b, i) ==
    IF i > 7 THEN b
    ELSE LET nb == _mm_xor_si128(transform(b, DEC_TABLE), RK(dk, i))
         IN  IF nb \in Reg THEN kuz_dec_rounds(dk, nb, i + 1) ELSE nb

\* sse2: decrypt_block_inout
kuz_decrypt_block_inout(self, block) ==
    LET ek == self.enc_keys
        b0 == _mm_xor_si128(_mm_loadu_si128(block), RK(ek, 9))
        b1 == transform(sub_bytes(b0, P), DEC_TABLE)
        b2 == kuz_dec_rounds(self.dec_keys, b1, 0)
        b3 == _mm_xor_si128(sub_bytes(b2, P_INV), RK(ek, 0))
    IN  _mm_storeu_si128(b3)

\* sse2: type ParBlocks = U4
ParBlocks == 4

Lanes4 == [1..ParBlocks -> Reg]

RECURSIVE kuz_enc_rounds_par(_, _, _)
kuz_enc_rounds_par(k, bs, i) ==
    IF i > 8 THEN bs
    ELSE LET nbs == <<transform(_mm_xor_si128(bs[1], RK(k, i)), ENC_TABLE),
                      transform(_mm_xor_si128(bs[2], RK(k, i)), ENC_TABLE),
                      transform(_mm_xor_si128(bs[3], RK(k, i)), ENC_TABLE),
                      transform(_mm_xor_si128(bs[4], RK(k, i)), ENC_TABLE)>>
         IN  IF nbs \in Lanes4 THEN kuz_enc_rounds_par(k, nbs, i + 1) ELSE nbs

\* sse2: the ParBlocks-wide closure of encrypt_blocks_with_pre
kuz_encrypt_par(s, chunk) ==
    LET k      == s.enc_keys
        blocks == <<_mm_loadu_si128(chunk[1]), _mm_loadu_si128(chunk[2]),
                    _mm_loadu_si128(chunk[3]), _mm_loadu_si128(chunk[4])>>
        bs     == kuz_enc_rounds_par(k, blocks, 0)
    IN  <<_mm_storeu_si128(_mm_xor_si128(bs[1], RK(k, 9))),
          _mm_storeu_si128(_mm_xor_si128(bs[2], RK(k, 9))),
          _mm_storeu_si128(_mm_xor_si128(bs[3], RK(k, 9))),
          _mm_storeu_si128(_mm_xor_si128(bs[4], RK(k, 9)))>>

RECURSIVE kuz_dec_rounds_par(_, _, _)
kuz_dec_rounds_par(dk, bs, i) ==
    IF i > 7 THEN bs
    ELSE LET nbs == <<_mm_xor_si128(transform(bs[1], DEC_TABLE), RK(dk, i)),
                      _mm_xor_si128(transform(bs[2], DEC_TABLE), RK(dk, i)),
                      _mm_xor_si128(transform(bs[3], DEC_TABLE), RK(dk, i)),
                      _mm_xor_si128(transform(bs[4], DEC_TABLE), RK(dk, i))>>
         IN  IF nbs \in Lanes4 THEN kuz_dec_rounds_par(dk, nbs, i + 1) ELSE nbs

\* first unroll_par! of the decrypt closure, for one lane
kuz_dec_first(ek, block) ==
    transform(sub_bytes(_mm_xor_si128(_mm_loadu_si128(block), RK(ek, 9)), P), DEC_TABLE)

\* last unroll_par! of the decrypt closure, for one lane
kuz_dec_last(ek, b) == _mm_storeu_si128(_mm_xor_si128(sub_bytes(b, P_INV), RK(ek, 0)))

\* sse2: the ParBlocks-wide closure of decrypt_blocks_with_pre
kuz_decrypt_par(s, chunk) ==
    LET ek     == s.enc_keys
        blocks == <<kuz_dec_first(ek, chunk[1]), kuz_dec_first(ek, chunk[2]),
                    kuz_dec_first(ek, chunk[3]), kuz_dec_first(ek, chunk[4])>>
        bs     == kuz_dec_rounds_par(s.dec_keys, blocks, 0)
    IN  <<kuz_dec_last(ek, bs[1]), kuz_dec_last(ek, bs[2]),
          kuz_dec_last(ek, bs[3]), kuz_dec_last(ek, bs[4])>>

\* sse2: |s, chunk| for block in chunk { s.encrypt_block_inout(block) }
kuz_encrypt_tail(s, chunk) ==
    [j \in 1..Len(chunk) |-> kuz_encrypt_block_inout(s, chunk[j])] \o << >>

\* sse2: |s, chunk| for block in chunk { s.decrypt_block_inout(block) }
kuz_decrypt_tail(s, chunk) ==
    [j \in 1..Len(chunk) |-> kuz_decrypt_block_inout(s, chunk[j])] \o << >>

\* sse2: encrypt_blocks_with_pre
kuz_encrypt_blocks_with_pre(self, blocks) ==
    LET chunks == process_chunks(ParBlocks, blocks)
    IN  write_chunks([c \in 1..Len(chunks) |->
            IF Len(chunks[c]) = ParBlocks THEN kuz_encrypt_par(self, chunks[c])
            ELSE kuz_encrypt_tail(self, chunks[c])] \o << >>)

\* sse2: decrypt_blocks_with_pre
kuz_decrypt_blocks_with_pre(self, blocks) ==
    LET chunks == process_chunks(ParBlocks, blocks)
    IN  write_chunks([c \in 1..Len(chunks) |->
            IF Len(chunks[c]) = ParBlocks THEN kuz_decrypt_par(self, chunks[c])
            ELSE kuz_decrypt_tail(self, chunks[c])] \o << >>)

(***************************************************************************)
(* The block modes are generic over the cipher; here they run over the     *)
(* Kuznyechik and the AES-NI Aes128 of the model.                          *)
(***************************************************************************)
NoCall == [op |-> "none"]

NoModes ==
    /\ encrypt = "none" /\ decrypt = "none"
    /\ pt = << >> /\ ct = << >> /\ rt = << >> /\ trace = << >> /\ given_iv = << >>

NoDispatch ==
    /\ cpu = "none" /\ aes_intrinsics = "none" /\ aes_ssse3_cpuid = "none"
    /\ objs = << >> /\ origin = << >> /\ ctrs = {} /\ call = NoCall
    /\ probes = 0 /\ expansions = 0

NoBatch ==
    cipher = "none" /\ inbuf = << >> /\ outbuf = << >> /\ singles = << >> /\ op = "none"

\* BlockEncrypt::encrypt_block of the cipher a mode was built over
encrypt_block(c, block) ==
    CASE c.ty = "Kuznyechik" -> kuz_encrypt_block_inout(c.obj, block)
      [] c.ty = "ni"         -> ni_encrypt_block_inout(c.obj, block)
      [] c.ty = "soft"       -> soft_encrypt_block_inout(c.obj, block)

\* BlockDecrypt::decrypt_block of the cipher a mode was built over
decrypt_block(c, block) ==
    CASE c.ty = "Kuznyechik" -> kuz_decrypt_block_inout(c.obj, block)
      [] c.ty = "ni"         -> ni_decrypt_block_inout(c.obj, block)
      [] c.ty = "soft"       -> soft_decrypt_block_inout(c.obj, block)

ModeCiphers ==
    {[ty |-> "Kuznyechik", obj |-> kuz_new(<<1, 2, 3, 0>>)],
     [ty |-> "ni", obj |-> ni_new("Aes128", <<2, 1>>)]}

\* the message blocks the callers draw from
MsgBlocks == {<<0, 0>>, <<1, 2>>, <<3, 1>>}

\* longest message, in blocks
MaxBlocks == 3

\* fn xor(out, buf): out[i] ^= buf[i]
xor(out, buf) == [i \in 1..BlockSize |-> ByteXor(out[i], buf[i])] \o << >>

(***************************************************************************)
(* PCBC (modes/pcbc/src/lib.rs)                                            *)
(***************************************************************************)
\* pcbc::Encrypt::inner_iv_init / pcbc::Decrypt::inner_iv_init
pcbc_inner_iv_init(c, iv) == [cipher |-> c, iv |-> iv]

\* pcbc::Encrypt::iv_state / pcbc::Decrypt::iv_state
pcbc_iv_state(self) == self.iv

\* pcbc::Encrypt::encrypt_block_inout_mut
pcbc_encrypt_block_inout_mut(self, block) ==
    LET t0  == xor(self.iv, block)
        out == encrypt_block(self.cipher, t0)
        t1  == xor(t0, out)
    IN  [self |-> [self EXCEPT !.iv = t1], out |-> out]

\* pcbc::Decrypt::decrypt_block_inout_mut
pcbc_decrypt_block_inout_mut(self, block) ==
    LET t   == xor(decrypt_block(self.cipher, block), self.iv)
        iv1 == block
        iv2 == xor(iv1, t)
    IN  [self |-> [self EXCEPT !.iv = iv2], out |-> t]

InitPcbc ==
    /\ \E c \in ModeCiphers, iv \in Block :
          /\ encrypt = pcbc_inner_iv_init(c, iv)
          /\ decrypt = pcbc_inner_iv_init(c, iv)
          /\ trace = <<iv>>
          /\ given_iv = iv
    /\ pt = << >> /\ ct = << >> /\ rt = << >>
    /\ NoDispatch /\ NoBatch

\* the sender encrypts one more block
PcbcEncryptBlock ==
    /\ Len(pt) < MaxBlocks
    /\ \E block \in MsgBlocks :
          LET r == pcbc_encrypt_block_inout_mut(encrypt, block)
          IN  /\ encrypt' = r.self
              /\ pt' = Append(pt, block)
              /\ ct' = Append(ct, r.out)
              /\ trace' = Append(trace, r.self.iv)
    /\ UNCHANGED <<decrypt, rt, given_iv, dispatchVars, batchVars>>

\* the receiver decrypts the next ciphertext block
PcbcDecryptBlock ==
    /\ Len(rt) < Len(ct)
    /\ LET r == pcbc_decrypt_block_inout_mut(decrypt, ct[Len(rt) + 1])
       IN  /\ decrypt' = r.self
           /\ rt' = Append(rt, r.out)
    /\ UNCHANGED <<encrypt, pt, ct, trace, given_iv, dispatchVars, batchVars>>

NextPcbc == PcbcEncryptBlock \/ PcbcDecryptBlock

SpecPcbc == InitPcbc /\ [][NextPcbc]_vars

\* C1: decrypting under the same key and IV what PCBC encrypted gives back the
\* plaintext, block for block
PcbcRoundTrip == \A i \in 1..Len(rt) : rt[i] = pt[i]

\* C9: after PCBC's Encrypt processed block i its chaining value is p_i XOR c_i and
\* nothing else, and c_i is the encryption of p_i XOR the previous chaining value
PcbcChainingRule ==
    \A i \in 1..Len(ct) :
        /\ trace[i + 1] = xor(pt[i], ct[i])
        /\ ct[i] = encrypt_block(encrypt.cipher, xor(pt[i], trace[i]))

(***************************************************************************)
(* CBC (modes/cbc/src/lib.rs), block by block                              *)
(***************************************************************************)
\* cbc::Encrypt::inner_iv_init / cbc::Decrypt::inner_iv_init
cbc_inner_iv_init(c, iv) == [cipher |-> c, iv |-> iv]

\* cbc::Encrypt::iv_state / cbc::Decrypt::iv_state
cbc_iv_state(self) == self.iv

\* an encryptor that keeps the IV it was built with
cbc_encrypt_iv_kept(self, block) ==
    [self |-> self, out |-> encrypt_block(self.cipher, xor(block, self.iv))]

\* cbc::Encrypt::encrypt_block_inout_mut
cbc_encrypt_block_inout_mut(self, block) ==
    LET t   == xor(block, self.iv)
        out == encrypt_block(self.cipher, t)
    IN  [self |-> [self EXCEPT !.iv = out], out |-> out]

\* a decryptor that chains on what it wrote instead of what it read
cbc_decrypt_chain_on_output(self, block) ==
    LET out == xor(decrypt_block(self.cipher, block), self.iv)
    IN  [self |-> [self EXCEPT !.iv = out], out |-> out]

\* cbc::Decrypt::decrypt_block_inout_mut
cbc_decrypt_block_inout_mut(self, block) ==
    LET enc_block == block
        out       == xor(decrypt_block(self.cipher, enc_block), self.iv)
    IN  [self |-> [self EXCEPT !.iv = enc_block], out |-> out]

InitCbc ==
    /\ \E c \in ModeCiphers, iv \in Block :
          /\ encrypt = cbc_inner_iv_init(c, iv)
          /\ decrypt = cbc_inner_iv_init(c, iv)
          /\ trace = <<iv>>
          /\ given_iv = iv
    /\ pt = << >> /\ ct = << >> /\ rt = << >>
    /\ NoDispatch /\ NoBatch

\* the sender encrypts one more block
CbcEncryptBlock ==
    /\ Len(pt) < MaxBlocks
    /\ \E block \in MsgBlocks :
          LET r == cbc_encrypt_block_inout_mut(encrypt, block)
          IN  /\ encrypt' = r.self
              /\ pt' = Append(pt, block)
              /\ ct' = Append(ct, r.out)
              /\ trace' = Append(trace, r.self.iv)
    /\ UNCHANGED <<decrypt, rt, given_iv, dispatchVars, batchVars>>

\* the receiver decrypts the next ciphertext block
CbcDecryptBlock ==
    /\ Len(rt) < Len(ct)
    /\ LET r == cbc_decrypt_block_inout_mut(decrypt, ct[Len(rt) + 1])
       IN  /\ decrypt' = r.self
           /\ rt' = Append(rt, r.out)
    /\ UNCHANGED <<encrypt, pt, ct, trace, given_iv, dispatchVars, batchVars>>

NextCbc == CbcEncryptBlock \/ CbcDecryptBlock

SpecCbc == InitCbc /\ [][NextCbc]_vars

\* C2: what cbc::Decrypt returns is the plaintext cbc::Encrypt was given, block for
\* block; after k blocks either side holds as IV what the other side held after k
\* blocks, which is the k-th ciphertext block (the initial IV for k = 0)
CbcRoundTrip ==
    /\ \A i \in 1..Len(rt) : rt[i] = pt[i]
    /\ \A i \in 1..Len(ct) :
          /\ ct[i] = encrypt_block(encrypt.cipher, xor(pt[i], trace[i]))
          /\ trace[i + 1] = ct[i]
    /\ encrypt.iv = trace[Len(ct) + 1]
    /\ decrypt.iv = trace[Len(rt) + 1]

\* a message of at least two different blocks under a non-zero IV has come back
CbcTwoBlocksBack ==
    /\ Len(rt) >= 2
    /\ pt[1] # pt[2]
    /\ trace[1] # DefaultBlock

(***************************************************************************)
(* IGE (modes/ige/src/lib.rs)                                              *)
(***************************************************************************)
\* iv.split_at(C::BlockSize::to_usize())
split_at(iv, mid) == <<SubSeq(iv, 1, mid), SubSeq(iv, mid + 1, Len(iv))>>

\* ige::Encrypt::inner_iv_init: let (y, x) = iv.split_at(BlockSize)
ige_encrypt_inner_iv_init(c, iv) ==
    LET yx == split_at(iv, BlockSize)
    IN  [cipher |-> c, x |-> yx[2], y |-> yx[1]]

\* ige::Decrypt::inner_iv_init: let (y, x) = iv.split_at(BlockSize)
ige_decrypt_inner_iv_init(c, iv) ==
    LET yx == split_at(iv, BlockSize)
    IN  [cipher |-> c, x |-> yx[2], y |-> yx[1]]

\* an iv_state that exports x before y
ige_iv_state_x_first(self) == self.x \o self.y

\* ige::Encrypt::iv_state / ige::Decrypt::iv_state
ige_iv_state(self) == self.y \o self.x

\* an encryptor that has already replaced X by the input when it whitens the output
ige_encrypt_new_x_first(self, block) ==
    LET new_x == block
        t     == xor(encrypt_block(self.cipher, xor(block, self.y)), new_x)
    IN  [self |-> [self EXCEPT !.x = new_x, !.y = t], out |-> t]

\* ige::Encrypt::encrypt_block_inout_mut
ige_encrypt_block_inout_mut(self, block) ==
    LET new_x == block
        t0    == xor(block, self.y)
        t1    == encrypt_block(self.cipher, t0)
        t2    == xor(t1, self.x)
    IN  [self |-> [self EXCEPT !.x = new_x, !.y = t2], out |-> t2]

\* a decryptor that takes X and Y the other way round
ige_decrypt_xy_swapped(self, block) ==
    LET new_y == block
        t     == xor(decrypt_block(self.cipher, xor(block, self.y)), self.x)
    IN  [self |-> [self EXCEPT !.y = new_y, !.x = t], out |-> t]

\* ige::Decrypt::decrypt_block_inout_mut
ige_decrypt_block_inout_mut(self, block) ==
    LET new_y == block
        t0    == xor(block, self.x)
        t1    == decrypt_block(self.cipher, t0)
        t2    == xor(t1, self.y)
    IN  [self |-> [self EXCEPT !.y = new_y, !.x = t2], out |-> t2]

\* the halves the callers build the two-block IV from
IvHalves == {<<0, 0>>, <<1, 0>>, <<2, 3>>, <<3, 1>>}

InitIge ==
    /\ \E c \in ModeCiphers, h1 \in IvHalves, h2 \in IvHalves :
          /\ given_iv = h1 \o h2
          /\ encrypt = ige_encrypt_inner_iv_init(c, h1 \o h2)
          /\ decrypt = ige_decrypt_inner_iv_init(c, h1 \o h2)
    /\ trace = <<[x |-> encrypt.x, y |-> encrypt.y]>>
    /\ pt = << >> /\ ct = << >> /\ rt = << >>
    /\ NoDispatch /\ NoBatch

\* the sender encrypts one more block
IgeEncryptBlock ==
    /\ Len(pt) < MaxBlocks
    /\ \E block \in MsgBlocks :
          LET r == ige_encrypt_block_inout_mut(encrypt, block)
          IN  /\ encrypt' = r.self
              /\ pt' = Append(pt, block)
              /\ ct' = Append(ct, r.out)
              /\ trace' = Append(trace, [x |-> r.self.x, y |-> r.self.y])
    /\ UNCHANGED <<decrypt, rt, given_iv, dispatchVars, batchVars>>

\* the receiver decrypts the next ciphertext block
IgeDecryptBlock ==
    /\ Len(rt) < Len(ct)
    /\ LET r == ige_decrypt_block_inout_mut(decrypt, ct[Len(rt) + 1])
       IN  /\ decrypt' = r.self
           /\ rt' = Append(rt, r.out)
    /\ UNCHANGED <<encrypt, pt, ct, trace, given_iv, dispatchVars, batchVars>>

NextIge == IgeEncryptBlock \/ IgeDecryptBlock

SpecIge == InitIge /\ [][NextIge]_vars

\* C10: ige::Encrypt starts with Y = first half and X = second half of the IV; for
\* every block its output is E(in XOR Y) XOR X and afterwards (X, Y) = (in, out)
IgeEncryptRule ==
    /\ trace[1].y = SubSeq(given_iv, 1, BlockSize)
    /\ trace[1].x = SubSeq(given_iv, BlockSize + 1, 2 * BlockSize)
    /\ \A i \in 1..Len(ct) :
          /\ ct[i] = xor(encrypt_block(encrypt.cipher, xor(pt[i], trace[i].y)), trace[i].x)
          /\ trace[i + 1] = [x |-> pt[i], y |-> ct[i]]
    /\ encrypt.x = trace[Len(ct) + 1].x
    /\ encrypt.y = trace[Len(ct) + 1].y

\* two blocks went through an encryptor whose IV has two different halves
IgeTwoBlocksOut ==
    /\ Len(ct) >= 2
    /\ trace[1].x # trace[1].y
    /\ pt[1] # pt[2]
    /\ pt[1] # trace[1].x

\* C11: what ige::Decrypt returns from the same IV is the plaintext ige::Encrypt was
\* given, block for block, and after block k either side holds (X, Y) =
\* (plaintext k, ciphertext k)
IgeRoundTrip ==
    /\ \A i \in 1..Len(rt) : rt[i] = pt[i]
    /\ Len(ct) >= 1 => (encrypt.x = pt[Len(ct)] /\ encrypt.y = ct[Len(ct)])
    /\ Len(rt) >= 1 => (decrypt.x = pt[Len(rt)] /\ decrypt.y = ct[Len(rt)])
    /\ Len(rt) = Len(ct) => (decrypt.x = encrypt.x /\ decrypt.y = encrypt.y)

\* two different blocks have come back under an IV of two different halves
IgeTwoBlocksBack ==
    /\ Len(rt) >= 2
    /\ pt[1] # pt[2]
    /\ SubSeq(given_iv, 1, BlockSize) # SubSeq(given_iv, BlockSize + 1, 2 * BlockSize)
    /\ ct[1] # pt[1]

(***************************************************************************)
(* The dispatching AES types (aes/src/autodetect.rs)                       *)
(*                                                                         *)
(* cpufeatures::new!(name, features...) makes a module with a process-wide *)
(* cache, init_get() and an InitToken whose get() reads the cache.  The    *)
(* token is a zero-sized proof that the cache was initialised.             *)
(***************************************************************************)
\* init_get() of a token module whose features are present or not on this CPU
init_get(cache, present) ==
    IF cache = "uninit"
    THEN [cache |-> IF present THEN "true" ELSE "false", probed |-> 1, res |-> present]
    ELSE [cache |-> cache, probed |-> 0, res |-> (cache = "true")]

\* InitToken::get()
token_get(cache) == cache = "true"

\* the features each token module was declared with
aes_present(c) == c.aes

aes_ssse3_present(c) == c.aes /\ c.ssse3

\* what a read of union field `field` can give: the value if that field was the one
\* written; otherwise the bytes of the other variant taken for a schedule, which is
\* whatever they happen to be
OtherKeys(name) ==
    CASE name = "Aes128" -> {<<0, 0>>, <<3, 3>>}
      [] name = "Aes192" -> {<<0, 0, 0>>, <<3, 3, 3>>}
      [] name = "Aes256" -> {<<0, 0, 0, 0>>, <<3, 3, 3, 3>>}

Reinterpreted(name, field) ==
    IF field = "soft"
    THEN {soft_new(name, k) : k \in OtherKeys(name)}
    ELSE {ni_new(name, k) : k \in OtherKeys(name)}

UnionRead(name, inner, field) ==
    IF inner.field = field THEN {inner.value} ELSE Reinterpreted(name, field)

ni_or_soft(bit) == IF bit THEN "intrinsics" ELSE "soft"

\* KeyInit::new, after init_get() returned aesni_present
autodetect_new(name, key, aesni_present) ==
    [name  |-> name,
     inner |-> IF aesni_present
               THEN [field |-> "intrinsics", value |-> ni_new(name, key)]
               ELSE [field |-> "soft", value |-> soft_new(name, key)],
     token |-> "aes_intrinsics"]

\* a clone that copies the constant-time field whatever the token says
autodetect_clone_soft_field(self, get) ==
    {[name  |-> self.name,
      inner |-> [field |-> "soft", value |-> v],
      token |-> self.token] : v \in UnionRead(self.name, self.inner, "soft")}

\* Clone::clone, with get = self.token.get(); every outcome the union read allows
autodetect_clone(self, get) ==
    {[name  |-> self.name,
      inner |-> [field |-> ni_or_soft(get), value |-> v],
      token |-> self.token] : v \in UnionRead(self.name, self.inner, ni_or_soft(get))}

\* a dispatcher with the two branches the wrong way round
autodetect_encrypt_block_swapped(self, get, block) ==
    {[path |-> ni_or_soft(~get),
      out  |-> IF ~get THEN ni_encrypt_block_inout(v, block)
               ELSE soft_encrypt_block_inout(v, block)]
        : v \in UnionRead(self.name, self.inner, ni_or_soft(~get))}

\* BlockEncrypt::encrypt_block_inout, with get = self.token.get()
autodetect_encrypt_block_inout(self, get, block) ==
    {[path |-> ni_or_soft(get),
      out  |-> IF get THEN ni_encrypt_block_inout(v, block)
               ELSE soft_encrypt_block_inout(v, block)]
        : v \in UnionRead(self.name, self.inner, ni_or_soft(get))}

\* BlockEncrypt::encrypt_blocks_with_pre, with get = self.token.get()
autodetect_encrypt_blocks_with_pre(self, get, blocks) ==
    {[path |-> ni_or_soft(get),
      out  |-> IF get THEN ni_encrypt_blocks_with_pre(v, blocks)
               ELSE soft_encrypt_blocks_with_pre(v, blocks)]
        : v \in UnionRead(self.name, self.inner, ni_or_soft(get))}

\* BlockDecrypt::decrypt_block_inout, with get = self.token.get()
autodetect_decrypt_block_inout(self, get, block) ==
    {[path |-> ni_or_soft(get),
      out  |-> IF get THEN ni_decrypt_block_inout(v, block)
               ELSE soft_decrypt_block_inout(v, block)]
        : v \in UnionRead(self.name, self.inner, ni_or_soft(get))}

\* BlockDecrypt::decrypt_blocks_with_pre, with get = self.token.get()
autodetect_decrypt_blocks_with_pre(self, get, blocks) ==
    {[path |-> ni_or_soft(get),
      out  |-> IF get THEN ni_decrypt_blocks_with_pre(v, blocks)
               ELSE soft_decrypt_blocks_with_pre(v, blocks)]
        : v \in UnionRead(self.name, self.inner, ni_or_soft(get))}

\* ctr::$name::from_block_cipher, after aes_ssse3_cpuid::init_get() returned
\* aesni_present: which field of the cipher's union it reads, and what it gets
ctr_from_block_cipher(c, aesni_present) ==
    {[name    |-> c.name,
      inner   |-> [field |-> IF aesni_present THEN "ni" ELSE "soft", value |-> v],
      token   |-> "aes_ssse3_cpuid",
      read    |-> ni_or_soft(aesni_present),
      written |-> c.inner.field] : v \in UnionRead(c.name, c.inner, ni_or_soft(aesni_present))}

\* self.token.get() for the token an object holds
TokenGet(token) ==
    IF token = "aes_intrinsics" THEN token_get(aes_intrinsics)
    ELSE token_get(aes_ssse3_cpuid)

\* most dispatching objects alive or moved
MaxObjs == 2

\* the (type, key) pairs the callers create ciphers from
DispatchKeys ==
    {[name |-> "Aes128", key |-> <<2, 1>>],
     [name |-> "Aes192", key |-> <<1, 2, 3>>],
     [name |-> "Aes256", key |-> <<3, 0, 1, 2>>]}

\* a buffer of n blocks
Buffer(n, seed) == [i \in 1..n |-> _mm_storeu_si128((seed + (3 * i)) % 16)] \o << >>

\* the buffers the callers hand to the batch operations of the dispatching types:
\* an empty one, and one block more than the widest batch
SomeBuffers == {Buffer(0, 1), Buffer(9, 1)}

\* the blocks the callers hand to their single-block operations
SomeBlocks == {<<1, 2>>, <<3, 1>>}

Live == {i \in 1..Len(objs) : ~origin[i].moved}

InitDispatch ==
    /\ cpu \in [aes : BOOLEAN, ssse3 : BOOLEAN]
    /\ aes_intrinsics = "uninit" /\ aes_ssse3_cpuid = "uninit"
    /\ objs = << >> /\ origin = << >> /\ ctrs = {} /\ call = NoCall
    /\ probes = 0 /\ expansions = 0
    /\ NoModes /\ NoBatch

\* Aes128::new(key), Aes192::new(key), Aes256::new(key)
New ==
    /\ call.op = "none"
    /\ Len(objs) < MaxObjs
    /\ \E nk \in DispatchKeys :
          LET g == init_get(aes_intrinsics, aes_present(cpu))
              o == autodetect_new(nk.name, nk.key, g.res)
          IN  /\ aes_intrinsics' = g.cache
              /\ probes' = probes + g.probed
              /\ expansions' = expansions + 1
              /\ objs' = Append(objs, o)
              /\ origin' = Append(origin, [name |-> nk.name, key |-> nk.key, moved |-> FALSE])
              /\ call' = [op |-> "new", obj |-> Len(objs) + 1, path |-> o.inner.field,
                          input |-> << >>, out |-> << >>]
    /\ UNCHANGED <<cpu, aes_ssse3_cpuid, ctrs, modeVars, batchVars>>

\* objs[i].clone()
Clone ==
    /\ call.op = "none"
    /\ Len(objs) < MaxObjs
    /\ \E i \in Live :
          \E c \in autodetect_clone(objs[i], TokenGet(objs[i].token)) :
              /\ objs' = Append(objs, c)
              /\ origin' = Append(origin, origin[i])
              /\ call' = [op |-> "clone", obj |-> i, path |-> c.inner.field,
                          input |-> << >>, out |-> << >>]
    /\ UNCHANGED <<cpu, aes_intrinsics, aes_ssse3_cpuid, ctrs, probes, expansions,
                   modeVars, batchVars>>

\* what the four cipher operations leave alone
CipherCallFrame ==
    UNCHANGED <<cpu, aes_intrinsics, aes_ssse3_cpuid, objs, origin, ctrs, probes,
                expansions, modeVars, batchVars>>

\* objs[i].encrypt_block_inout(block)
EncryptBlock ==
    /\ call.op = "none"
    /\ \E i \in Live, block \in SomeBlocks :
          \E r \in autodetect_encrypt_block_inout(objs[i], TokenGet(objs[i].token), block) :
              call' = [op |-> "encrypt_block_inout", obj |-> i, path |-> r.path,
                       input |-> <<block>>, out |-> <<r.out>>]
    /\ CipherCallFrame

\* objs[i].decrypt_block_inout(block)
DecryptBlock ==
    /\ call.op = "none"
    /\ \E i \in Live, block \in SomeBlocks :
          \E r \in autodetect_decrypt_block_inout(objs[i], TokenGet(objs[i].token), block) :
              call' = [op |-> "decrypt_block_inout", obj |-> i, path |-> r.path,
                       input |-> <<block>>, out |-> <<r.out>>]
    /\ CipherCallFrame

\* objs[i].encrypt_blocks_with_pre(blocks, ..)
EncryptBlocks ==
    /\ call.op = "none"
    /\ \E i \in Live, blocks \in SomeBuffers :
          \E r \in autodetect_encrypt_blocks_with_pre(objs[i], TokenGet(objs[i].token), blocks) :
              call' = [op |-> "encrypt_blocks_with_pre", obj |-> i, path |-> r.path,
                       input |-> blocks, out |-> r.out]
    /\ CipherCallFrame

\* objs[i].decrypt_blocks_with_pre(blocks, ..)
DecryptBlocks ==
    /\ call.op = "none"
    /\ \E i \in Live, blocks \in SomeBuffers :
          \E r \in autodetect_decrypt_blocks_with_pre(objs[i], TokenGet(objs[i].token), blocks) :
              call' = [op |-> "decrypt_blocks_with_pre", obj |-> i, path |-> r.path,
                       input |-> blocks, out |-> r.out]
    /\ CipherCallFrame

\* Aes128Ctr / Aes192Ctr / Aes256Ctr ::from_block_cipher(objs[i], nonce): objs[i] is
\* moved into the call
FromBlockCipher ==
    /\ call.op = "none"
    /\ \E i \in Live :
          LET g == init_get(aes_ssse3_cpuid, aes_ssse3_present(cpu))
          IN  \E r \in ctr_from_block_cipher(objs[i], g.res) :
                  /\ aes_ssse3_cpuid' = g.cache
                  /\ probes' = probes + g.probed
                  /\ ctrs' = ctrs \cup {r}
                  /\ origin' = [origin EXCEPT ![i].moved = TRUE]
                  /\ call' = [op |-> "from_block_cipher", obj |-> i, path |-> r.read,
                              input |-> << >>, out |-> << >>]
    /\ UNCHANGED <<cpu, aes_intrinsics, objs, expansions, modeVars, batchVars>>

\* the caller is done with what the call returned
Continue ==
    /\ call.op # "none"
    /\ call' = NoCall
    /\ UNCHANGED <<cpu, aes_intrinsics, aes_ssse3_cpuid, objs, origin, ctrs, probes,
                   expansions, modeVars, batchVars>>

NextDispatch ==
    \/ New
    \/ Clone
    \/ EncryptBlock
    \/ DecryptBlock
    \/ EncryptBlocks
    \/ DecryptBlocks
    \/ FromBlockCipher
    \/ Continue

SpecDispatch == InitDispatch /\ [][NextDispatch]_vars

CipherOps ==
    {"encrypt_block_inout", "decrypt_block_inout",
     "encrypt_blocks_with_pre", "decrypt_blocks_with_pre"}

\* C3: every dispatching object that exists has the selection bit and the payload
\* that new() chose for its type and key on this CPU, whatever was called since; and
\* a cipher operation that has just returned went to the hardware implementation if
\* the object's selection bit is set and to the constant-time one otherwise
DispatchSelectionFixed ==
    /\ \A i \in Live :
          /\ TokenGet(objs[i].token) = aes_present(cpu)
          /\ objs[i].inner
               = autodetect_new(origin[i].name, origin[i].key, aes_present(cpu)).inner
    /\ call.op \in CipherOps =>
          call.path = ni_or_soft(TokenGet(objs[call.obj].token))

\* a batch operation has returned from a clone whose original was moved away
BatchOnCloneReturned ==
    /\ call.op = "decrypt_blocks_with_pre"
    /\ Len(call.input) > 0
    /\ call.obj = 2
    /\ origin[1].moved
    /\ origin[2].key = origin[1].key
    /\ expansions = 1

\* C4: every read of a dispatching object's union reads the field that was written
\* when the object was made: in the cipher operations and clone, and in
\* from_block_cipher of the CTR types, on every CPU
UnionReadsWrittenField ==
    /\ \A r \in ctrs : r.read = r.written
    /\ call.op \in CipherOps \cup {"clone", "from_block_cipher"} =>
          call.path = objs[call.obj].inner.field

\* C6: a step that clones object i appends an object with the token and the payload
\* of i, leaves every existing object, the token caches, the probe count and the count
\* of key expansions as they were, and the clone answers as the original does
CloneIsVerbatim ==
    [][(call.op = "none" /\ call'.op = "clone") =>
          LET i == call'.obj
              c == objs'[Len(objs')]
              was == TokenGet(objs[i].token)
              now == IF c.token = "aes_intrinsics" THEN token_get(aes_intrinsics')
                     ELSE token_get(aes_ssse3_cpuid')
          IN  /\ Len(objs') = Len(objs) + 1
              /\ \A j \in 1..Len(objs) : objs'[j] = objs[j]
              /\ c.token = objs[i].token
              /\ c.inner = objs[i].inner
              /\ c.name = objs[i].name
              /\ aes_intrinsics' = aes_intrinsics
              /\ aes_ssse3_cpuid' = aes_ssse3_cpuid
              /\ probes' = probes
              /\ expansions' = expansions
              /\ \A block \in SomeBlocks :
                    /\ autodetect_encrypt_block_inout(c, now, block)
                         = autodetect_encrypt_block_inout(objs[i], was, block)
                    /\ autodetect_decrypt_block_inout(c, now, block)
                         = autodetect_decrypt_block_inout(objs[i], was, block)
      ]_vars

\* a hardware-backed object has been cloned
HardwareCloneMade ==
    /\ call.op = "clone"
    /\ Len(objs) = 2
    /\ objs[2].inner.field = "intrinsics"
    /\ expansions = 1

\* what the hardware implementation, keyed directly, returns for an operation
RunHardware(name, key, o, input) ==
    LET v == ni_new(name, key)
    IN  CASE o = "encrypt_block_inout"     -> <<ni_encrypt_block_inout(v, input[1])>>
          [] o = "decrypt_block_inout"     -> <<ni_decrypt_block_inout(v, input[1])>>
          [] o = "encrypt_blocks_with_pre" -> ni_encrypt_blocks_with_pre(v, input)
          [] o = "decrypt_blocks_with_pre" -> ni_decrypt_blocks_with_pre(v, input)

\* what the constant-time implementation, keyed directly, returns for an operation
RunConstantTime(name, key, o, input) ==
    LET v == soft_new(name, key)
    IN  CASE o = "encrypt_block_inout"     -> <<soft_encrypt_block_inout(v, input[1])>>
          [] o = "decrypt_block_inout"     -> <<soft_decrypt_block_inout(v, input[1])>>
          [] o = "encrypt_blocks_with_pre" -> soft_encrypt_blocks_with_pre(v, input)
          [] o = "decrypt_blocks_with_pre" -> soft_decrypt_blocks_with_pre(v, input)

\* C8: what a dispatching cipher returned, single block or batch, encrypting or
\* decrypting, is what the implementation it did not select returns for the same
\* type, key and input
DispatchEquivalence ==
    call.op \in CipherOps =>
        LET o == origin[call.obj]
        IN  call.out = IF call.path = "intrinsics"
                       THEN RunConstantTime(o.name, o.key, call.op, call.input)
                       ELSE RunHardware(o.name, o.key, call.op, call.input)

\* the constant-time Aes192 has decrypted a buffer longer than any batch
SoftBatchDecrypted ==
    /\ call.op = "decrypt_blocks_with_pre"
    /\ call.path = "soft"
    /\ Len(call.input) > NiParBlocks
    /\ origin[call.obj].name = "Aes192"

(***************************************************************************)
(* The ciphers on whole buffers: one batch call, and single-block calls on *)
(* the same buffer taken from either end.                                  *)
(***************************************************************************)
\* BlockEncrypt::encrypt_blocks_with_pre of a cipher, with the hooks of encrypt_blocks
encrypt_blocks(c, blocks) ==
    CASE c.ty = "Kuznyechik" -> kuz_encrypt_blocks_with_pre(c.obj, blocks)
      [] c.ty = "ni"         -> ni_encrypt_blocks_with_pre(c.obj, blocks)
      [] c.ty = "soft"       -> soft_encrypt_blocks_with_pre(c.obj, blocks)

\* BlockDecrypt::decrypt_blocks_with_pre of a cipher, with the hooks of decrypt_blocks
decrypt_blocks(c, blocks) ==
    CASE c.ty = "Kuznyechik" -> kuz_decrypt_blocks_with_pre(c.obj, blocks)
      [] c.ty = "ni"         -> ni_decrypt_blocks_with_pre(c.obj, blocks)
      [] c.ty = "soft"       -> soft_decrypt_blocks_with_pre(c.obj, blocks)

\* longest buffer, in blocks
MaxN == 9

BatchCiphers ==
    {[ty |-> "ni", obj |-> ni_new(nk.name, nk.key)] : nk \in DispatchKeys}
    \cup {[ty |-> "soft", obj |-> soft_new(nk.name, nk.key)] : nk \in DispatchKeys}
    \cup {[ty |-> "Kuznyechik", obj |-> kuz_new(<<1, 2, 3, 0>>)]}

\* not yet written
Unwritten == << >>

InitBatch ==
    /\ cipher \in BatchCiphers
    /\ inbuf = << >> /\ outbuf = << >> /\ singles = << >> /\ op = "idle"
    /\ NoModes /\ NoDispatch

\* cipher.encrypt_blocks(buffer) on a fresh buffer
EncryptBlocksCall ==
    /\ op = "idle"
    /\ \E n \in 0..MaxN, seed \in {1, 2} :
          /\ inbuf' = Buffer(n, seed)
          /\ outbuf' = encrypt_blocks(cipher, Buffer(n, seed))
          /\ singles' = [i \in 1..n |-> Unwritten] \o << >>
    /\ op' = "encrypt"
    /\ UNCHANGED <<cipher, modeVars, dispatchVars>>

\* cipher.decrypt_blocks(buffer) on a fresh buffer
DecryptBlocksCall ==
    /\ op = "idle"
    /\ \E n \in 0..MaxN, seed \in {1, 2} :
          /\ inbuf' = Buffer(n, seed)
          /\ outbuf' = decrypt_blocks(cipher, Buffer(n, seed))
          /\ singles' = [i \in 1..n |-> Unwritten] \o << >>
    /\ op' = "decrypt"
    /\ UNCHANGED <<cipher, modeVars, dispatchVars>>

Todo == {i \in 1..Len(singles) : singles[i] = Unwritten}

\* the single-block call for block i of the same buffer
SingleCall(i) ==
    /\ singles' = [singles EXCEPT
                     ![i] = IF op = "encrypt" THEN encrypt_block(cipher, inbuf[i])
                            ELSE decrypt_block(cipher, inbuf[i])]
    /\ UNCHANGED <<cipher, inbuf, outbuf, op, modeVars, dispatchVars>>

\* the caller goes through the buffer from the front ...
SingleFromFront ==
    /\ op \in {"encrypt", "decrypt"}
    /\ Todo # {}
    /\ SingleCall(CHOOSE i \in Todo : \A j \in Todo : i <= j)

\* ... or from the back, in any mix
SingleFromBack ==
    /\ op \in {"encrypt", "decrypt"}
    /\ Todo # {}
    /\ SingleCall(CHOOSE i \in Todo : \A j \in Todo : i >= j)

\* the caller is done with the buffer
BufferDone ==
    /\ op \in {"encrypt", "decrypt"}
    /\ Todo = {}
    /\ inbuf' = << >> /\ outbuf' = << >> /\ singles' = << >> /\ op' = "idle"
    /\ UNCHANGED <<cipher, modeVars, dispatchVars>>

NextBatch ==
    \/ EncryptBlocksCall
    \/ DecryptBlocksCall
    \/ SingleFromFront
    \/ SingleFromBack
    \/ BufferDone

SpecBatch == InitBatch /\ [][NextBatch]_vars

\* C7: the batch call writes one block for every block of the buffer, and what it
\* wrote for block i is what the single-block call writes for block i, in whatever
\* order the single-block calls are made, for every length of buffer
BatchEqualsSingle ==
    /\ Len(outbuf) = Len(inbuf)
    /\ \A i \in 1..Len(singles) : singles[i] # Unwritten => outbuf[i] = singles[i]

\* a buffer of two full batches and a tail went through Kuznyechik's decryption, and
\* the single-block calls are through as well
KuzTailCompared ==
    /\ op = "decrypt"
    /\ cipher.ty = "Kuznyechik"
    /\ Len(inbuf) > 2 * ParBlocks
    /\ Todo = {}

(***************************************************************************)
(* CFB with full-block feedback (modes/cfb-mode/src/lib.rs) and CFB-8      *)
(* (modes/cfb8/src/lib.rs).  The sender holds an encrypting instance, the  *)
(* receiver a second instance made from the same cipher and IV.            *)
(***************************************************************************)
\* CfbCore::inner_iv_init
cfb_inner_iv_init(c, iv) == [ty |-> "CfbCore", cipher |-> c, iv |-> iv]

\* CfbCore::iv_state
cfb_iv_state(self) == self.iv

\* the end of encrypt_block_inout_mut: the new IV is written to the output
cfb_feed(self, iv) == [self |-> [self EXCEPT !.iv = iv], out |-> iv]

\* CfbCore::encrypt_block_inout_mut
cfb_encrypt_block_inout_mut(self, block) ==
    cfb_feed(self, xor(encrypt_block(self.cipher, self.iv), block))

\* a decryptor that feeds back what it wrote instead of what it read
cfb_decrypt_feeds_output(self, block) ==
    cfb_feed(self, xor(encrypt_block(self.cipher, self.iv), block))

\* CfbCore::decrypt_block_inout_mut
cfb_decrypt_block_inout_mut(self, block) ==
    LET t == xor(encrypt_block(self.cipher, self.iv), block)
    IN  [self |-> [self EXCEPT !.iv = block], out |-> t]

\* a post closure that keeps E(IV) as the running value for every block
cfb_decrypt_post_enc_iv_kept(enc_iv, in_buf, tmp_buf, i) ==
    [j \in 1..Len(in_buf) |-> xor(enc_iv, in_buf[j])] \o << >>

\* the post closure of decrypt_blocks_with_pre_mut, block i of the buffer onwards:
\*   xor(&mut enc_iv, &in_buf[i]); swap(&mut tmp_buf[i], &mut enc_iv)
\* enc_iv is kept from one chunk of the walk to the next
RECURSIVE cfb_decrypt_post(_, _, _, _)
cfb_decrypt_post(enc_iv, in_buf, tmp_buf, i) ==
    IF i > Len(in_buf) THEN tmp_buf
    ELSE cfb_decrypt_post(tmp_buf[i], in_buf,
                          [tmp_buf EXCEPT ![i] = xor(enc_iv, in_buf[i])], i + 1)

\* CfbCore::decrypt_blocks_with_pre_mut: the cipher encrypts the input blocks in
\* batches, the closure turns E(in[i - 1]) into out[i]
cfb_decrypt_blocks_with_pre_mut(self, blocks) ==
    [self |-> IF blocks = << >> THEN self ELSE [self EXCEPT !.iv = blocks[Len(blocks)]],
     out  |-> cfb_decrypt_post(encrypt_block(self.cipher, self.iv), blocks,
                               encrypt_blocks(self.cipher, blocks), 1)]

\* Cfb8::inner_iv_init
cfb8_inner_iv_init(c, iv) == [ty |-> "Cfb8", cipher |-> c, iv |-> iv]

\* Cfb8::iv_state
cfb8_iv_state(self) == self.iv

\* for i in 0..n - 1 { iv[i] = iv[i + 1] }; iv[n - 1] = r
cfb8_shift(iv, r) ==
    [i \in 1..Len(iv) |-> IF i < Len(iv) THEN iv[i + 1] ELSE r] \o << >>

\* an encryptor that shifts the byte it read into the IV
cfb8_encrypt_feeds_input(self, block) ==
    LET t == encrypt_block(self.cipher, self.iv)
    IN  [self |-> [self EXCEPT !.iv = cfb8_shift(self.iv, block[1])],
         out  |-> <<ByteXor(block[1], t[1])>>]

\* the end of encrypt_block_inout_mut: the byte r is written to the output and
\* shifted into the IV
cfb8_feed(self, r) == [self |-> [self EXCEPT !.iv = cfb8_shift(self.iv, r)], out |-> <<r>>]

\* Cfb8::encrypt_block_inout_mut, on a block of one byte
cfb8_encrypt_block_inout_mut(self, block) ==
    cfb8_feed(self, ByteXor(block[1], encrypt_block(self.cipher, self.iv)[1]))

\* Cfb8::decrypt_block_inout_mut, on a block of one byte
cfb8_decrypt_block_inout_mut(self, block) ==
    LET t == encrypt_block(self.cipher, self.iv)
    IN  [self |-> [self EXCEPT !.iv = cfb8_shift(self.iv, block[1])],
         out  |-> <<ByteXor(block[1], t[1])>>]

\* what a call has done so far, after one more one-byte block
cfb8_next(acc, r) ==
    [self |-> r.self, out |-> acc.out \o r.out, ivs |-> Append(acc.ivs, r.self.iv)]

\* Cfb8::encrypt_inout: for block in blocks { self.encrypt_block_inout_mut(block) };
\* with one-byte blocks data.into_blocks() leaves no tail
RECURSIVE cfb8_encrypt_from(_, _, _)
cfb8_encrypt_from(acc, data, i) ==
    IF i > Len(data) THEN acc
    ELSE cfb8_encrypt_from(
             cfb8_next(acc, cfb8_encrypt_block_inout_mut(acc.self, <<data[i]>>)),
             data, i + 1)

cfb8_encrypt_inout(self, data) ==
    cfb8_encrypt_from([self |-> self, out |-> << >>, ivs |-> << >>], data, 1)

\* Cfb8::decrypt_inout
RECURSIVE cfb8_decrypt_from(_, _, _)
cfb8_decrypt_from(acc, data, i) ==
    IF i > Len(data) THEN acc
    ELSE cfb8_decrypt_from(
             cfb8_next(acc, cfb8_decrypt_block_inout_mut(acc.self, <<data[i]>>)),
             data, i + 1)

cfb8_decrypt_inout(self, data) ==
    cfb8_decrypt_from([self |-> self, out |-> << >>, ivs |-> << >>], data, 1)

\* longest CFB-8 message, in bytes
MaxBytes == 3

\* every sequence of at most n elements of S
RECURSIVE SeqsUpTo(_, _)
SeqsUpTo(S, n) ==
    IF n = 0 THEN {<< >>}
    ELSE LET T == SeqsUpTo(S, n - 1)
         IN  T \cup {Append(d, b) : d \in {e \in T : Len(e) = n - 1}, b \in S}

InitCfb ==
    /\ \E c \in ModeCiphers, iv \in IvHalves :
          /\ \/ /\ encrypt = cfb_inner_iv_init(c, iv)
                /\ decrypt = cfb_inner_iv_init(c, iv)
             \/ /\ encrypt = cfb8_inner_iv_init(c, iv)
                /\ decrypt = cfb8_inner_iv_init(c, iv)
          /\ trace = <<iv>>
          /\ given_iv = iv
    /\ pt = << >> /\ ct = << >> /\ rt = << >>
    /\ NoDispatch /\ NoBatch

\* the sender keeps what a call r returned for data: its instance, the output
\* (one block if the call was a block operation), and the IV after every block
CfbSent(r, data, block_op) ==
    /\ encrypt' = r.self
    /\ pt' = pt \o data
    /\ ct' = ct \o (IF block_op THEN <<r.out>> ELSE r.out)
    /\ trace' = trace \o (IF block_op THEN <<r.self.iv>> ELSE r.ivs)

\* the receiver keeps what a call r returned
CfbReceived(r, block_op) ==
    /\ decrypt' = r.self
    /\ rt' = rt \o (IF block_op THEN <<r.out>> ELSE r.out)

\* the sender encrypts one more block
CfbEncryptBlock ==
    /\ encrypt.ty = "CfbCore"
    /\ Len(pt) < MaxBlocks
    /\ \E block \in MsgBlocks :
          CfbSent(cfb_encrypt_block_inout_mut(encrypt, block), <<block>>, TRUE)
    /\ UNCHANGED <<decrypt, rt, given_iv, dispatchVars, batchVars>>

\* the receiver decrypts the next ciphertext block
CfbDecryptBlock ==
    /\ decrypt.ty = "CfbCore"
    /\ Len(rt) < Len(ct)
    /\ CfbReceived(cfb_decrypt_block_inout_mut(decrypt, ct[Len(rt) + 1]), TRUE)
    /\ UNCHANGED <<encrypt, pt, ct, trace, given_iv, dispatchVars, batchVars>>

\* the receiver decrypts the next n ciphertext blocks in one call
CfbDecryptBlocks ==
    /\ decrypt.ty = "CfbCore"
    /\ \E n \in 1..(Len(ct) - Len(rt)) :
          CfbReceived(cfb_decrypt_blocks_with_pre_mut(decrypt,
                                                      SubSeq(ct, Len(rt) + 1, Len(rt) + n)), FALSE)
    /\ UNCHANGED <<encrypt, pt, ct, trace, given_iv, dispatchVars, batchVars>>

\* the sender encrypts some more bytes, none included
Cfb8EncryptInout ==
    /\ encrypt.ty = "Cfb8"
    /\ \E data \in SeqsUpTo(Byte, MaxBytes - Len(pt)) :
          CfbSent(cfb8_encrypt_inout(encrypt, data), data, FALSE)
    /\ UNCHANGED <<decrypt, rt, given_iv, dispatchVars, batchVars>>

\* the receiver decrypts some of the bytes it has not decrypted yet, none included
Cfb8DecryptInout ==
    /\ decrypt.ty = "Cfb8"
    /\ \E n \in 0..(Len(ct) - Len(rt)) :
          CfbReceived(cfb8_decrypt_inout(decrypt, SubSeq(ct, Len(rt) + 1, Len(rt) + n)), FALSE)
    /\ UNCHANGED <<encrypt, pt, ct, trace, given_iv, dispatchVars, batchVars>>

NextCfb ==
    \/ CfbEncryptBlock
    \/ CfbDecryptBlock
    \/ CfbDecryptBlocks
    \/ Cfb8EncryptInout
    \/ Cfb8DecryptInout

SpecCfb == InitCfb /\ [][NextCfb]_vars

\* C12: what a CfbCore decrypts from the same IV is the message the CfbCore encrypted,
\* block for block, whether it decrypts block by block or several blocks in a call;
\* what Cfb8::decrypt_inout returns is the message Cfb8::encrypt_inout was given, byte
\* for byte, whatever the lengths of the calls
CfbRoundTrip ==
    /\ Len(ct) = Len(pt)
    /\ Len(rt) <= Len(ct)
    /\ \A i \in 1..Len(rt) : rt[i] = pt[i]

\* three bytes, which is no whole number of blocks, came back through CFB-8 and the
\* bytes were changed on the way
Cfb8OddLengthBack ==
    /\ decrypt.ty = "Cfb8"
    /\ Len(rt) = 3
    /\ Len(rt) % BlockSize # 0
    /\ ct # pt
    /\ pt[1] # pt[2]

\* the IV a CFB-8 instance holds after k bytes of ciphertext
Cfb8IvAfter(k) == SubSeq(given_iv \o SubSeq(ct, 1, k), k + 1, k + BlockSize)

\* C13: a CfbCore writes E(IV) XOR input and then holds the ciphertext block as IV,
\* which is its output when it encrypts and its input when it decrypts; a Cfb8 writes
\* input byte XOR first byte of E(IV) and then holds the IV shifted left by one byte
\* with the ciphertext byte as last byte, in both directions
CfbFeedbackRule ==
    /\ encrypt.iv = trace[Len(ct) + 1]
    /\ encrypt.ty = "CfbCore" =>
          /\ \A i \in 1..Len(ct) :
                /\ ct[i] = xor(encrypt_block(encrypt.cipher, trace[i]), pt[i])
                /\ trace[i + 1] = ct[i]
          /\ \A i \in 1..Len(rt) :
                rt[i] = xor(encrypt_block(decrypt.cipher, IF i = 1 THEN given_iv ELSE ct[i - 1]),
                            ct[i])
          /\ decrypt.iv = IF Len(rt) = 0 THEN given_iv ELSE ct[Len(rt)]
    /\ encrypt.ty = "Cfb8" =>
          /\ \A i \in 1..Len(ct) :
                /\ ct[i] = ByteXor(pt[i], encrypt_block(encrypt.cipher, trace[i])[1])
                /\ trace[i + 1] = Tail(trace[i]) \o <<ct[i]>>
          /\ \A i \in 1..Len(rt) :
                rt[i] = ByteXor(ct[i], encrypt_block(decrypt.cipher, Cfb8IvAfter(i - 1))[1])
          /\ decrypt.iv = Cfb8IvAfter(Len(rt))

\* a CfbCore has decrypted at least two of three different ciphertext blocks made
\* under a non-zero IV
CfbBatchDecrypted ==
    /\ decrypt.ty = "CfbCore"
    /\ Len(ct) = 3
    /\ Len(rt) >= 2
    /\ decrypt.iv = ct[Len(rt)]
    /\ ct[1] # ct[2]
    /\ given_iv # DefaultBlock

(***************************************************************************)
(* OFB (modes/ofb/src/lib.rs)                                              *)
(***************************************************************************)
\* Ofb::inner_iv_init
ofb_inner_iv_init(c, iv) == [cipher |-> c, iv |-> iv]

\* Ofb::iv_state
ofb_iv_state(self) == self.iv

\* fn xor_set(a, b): output[i] = a[i] ^ input[i]
xor_set(a, input) == [i \in 1..BlockSize |-> ByteXor(a[i], input[i])] \o << >>

\* the body the three operations share:
\*   self.cipher.encrypt_block_mut(&mut self.iv); xor_set(&self.iv, block)
ofb_step(self, iv, block) == [self |-> [self EXCEPT !.iv = iv], out |-> xor_set(iv, block)]

\* BlockEncryptMut::encrypt_block_inout_mut
ofb_encrypt_block_inout_mut(self, block) ==
    ofb_step(self, encrypt_block(self.cipher, self.iv), block)

\* a decryptor that xors with the IV it held before the call
ofb_decrypt_with_old_iv(self, block) ==
    [self |-> [self EXCEPT !.iv = encrypt_block(self.cipher, self.iv)],
     out  |-> xor_set(self.iv, block)]

\* BlockDecryptMut::decrypt_block_inout_mut
ofb_decrypt_block_inout_mut(self, block) ==
    ofb_step(self, encrypt_block(self.cipher, self.iv), block)

\* what a call has done so far, after one more block
ofb_next(acc, r) ==
    [self |-> r.self, out |-> Append(acc.out, r.out), ivs |-> Append(acc.ivs, r.self.iv)]

\* StreamCipherCore::apply_keystream_blocks, with hooks that do nothing
RECURSIVE ofb_apply_from(_, _, _)
ofb_apply_from(acc, blocks, i) ==
    IF i > Len(blocks) THEN acc
    ELSE ofb_apply_from(
             ofb_next(acc, ofb_step(acc.self, encrypt_block(acc.self.cipher, acc.self.iv),
                                    blocks[i])),
             blocks, i + 1)

ofb_apply_keystream_blocks(self, blocks) ==
    ofb_apply_from([self |-> self, out |-> << >>, ivs |-> << >>], blocks, 1)

InitOfb ==
    /\ \E c \in ModeCiphers, iv \in IvHalves :
          /\ encrypt = ofb_inner_iv_init(c, iv)
          /\ decrypt = ofb_inner_iv_init(c, iv)
          /\ trace = <<iv>>
          /\ given_iv = iv
    /\ pt = << >> /\ ct = << >> /\ rt = << >>
    /\ NoDispatch /\ NoBatch

\* the sender encrypts one more block
OfbEncryptBlock ==
    /\ Len(pt) < MaxBlocks
    /\ \E block \in MsgBlocks :
          LET r == ofb_encrypt_block_inout_mut(encrypt, block)
          IN  /\ encrypt' = r.self
              /\ pt' = Append(pt, block)
              /\ ct' = Append(ct, r.out)
              /\ trace' = Append(trace, r.self.iv)
    /\ UNCHANGED <<decrypt, rt, given_iv, dispatchVars, batchVars>>

\* the sender applies the keystream to some more blocks, none included
OfbApplyKeystream ==
    /\ \E blocks \in SeqsUpTo(MsgBlocks, MaxBlocks - Len(pt)) :
          LET r == ofb_apply_keystream_blocks(encrypt, blocks)
          IN  /\ encrypt' = r.self
              /\ pt' = pt \o blocks
              /\ ct' = ct \o r.out
              /\ trace' = trace \o r.ivs
    /\ UNCHANGED <<decrypt, rt, given_iv, dispatchVars, batchVars>>

\* the receiver decrypts the next block
OfbDecryptBlock ==
    /\ Len(rt) < Len(ct)
    /\ LET r == ofb_decrypt_block_inout_mut(decrypt, ct[Len(rt) + 1])
       IN  /\ decrypt' = r.self
           /\ rt' = Append(rt, r.out)
    /\ UNCHANGED <<encrypt, pt, ct, trace, given_iv, dispatchVars, batchVars>>

\* the receiver applies the keystream to some of the blocks it has not done yet
OfbApplyKeystreamBack ==
    /\ \E n \in 0..(Len(ct) - Len(rt)) :
          LET r == ofb_apply_keystream_blocks(decrypt, SubSeq(ct, Len(rt) + 1, Len(rt) + n))
          IN  /\ decrypt' = r.self
              /\ rt' = rt \o r.out
    /\ UNCHANGED <<encrypt, pt, ct, trace, given_iv, dispatchVars, batchVars>>

\* the receiver uses the encrypting operation on the next block
OfbEncryptBack ==
    /\ Len(rt) < Len(ct)
    /\ LET r == ofb_encrypt_block_inout_mut(decrypt, ct[Len(rt) + 1])
       IN  /\ decrypt' = r.self
           /\ rt' = Append(rt, r.out)
    /\ UNCHANGED <<encrypt, pt, ct, trace, given_iv, dispatchVars, batchVars>>

NextOfb ==
    \/ OfbEncryptBlock
    \/ OfbApplyKeystream
    \/ OfbDecryptBlock
    \/ OfbApplyKeystreamBack
    \/ OfbEncryptBack

SpecOfb == InitOfb /\ [][NextOfb]_vars

\* E applied n times to the IV the two instances were made from
RECURSIVE OfbIvAfter(_)
OfbIvAfter(n) ==
    IF n = 0 THEN given_iv ELSE encrypt_block(encrypt.cipher, OfbIvAfter(n - 1))

\* C14: after n blocks an Ofb holds E applied n times to the initial IV, whatever the
\* blocks were; every output block is the input XOR the IV held after that step;
\* encrypt_block_inout_mut, decrypt_block_inout_mut and apply_keystream_blocks do the
\* same, so a second pass from the same IV gives the message back
OfbKeystream ==
    /\ Len(ct) = Len(pt)
    /\ encrypt.iv = OfbIvAfter(Len(ct))
    /\ decrypt.iv = OfbIvAfter(Len(rt))
    /\ \A i \in 1..Len(ct) :
          /\ trace[i + 1] = OfbIvAfter(i)
          /\ ct[i] = xor(pt[i], OfbIvAfter(i))
    /\ \A i \in 1..Len(rt) :
          /\ rt[i] = xor(ct[i], OfbIvAfter(i))
          /\ rt[i] = pt[i]

\* three blocks, not all the same, went out and came back
OfbThreeBlocksBack ==
    /\ Len(rt) = 3
    /\ pt[1] # pt[2]
    /\ ct # pt
    /\ decrypt.iv # given_iv

(***************************************************************************)
(* CTR (modes/ctr/src/lib.rs, modes/ctr/src/flavors.rs)                    *)
(*                                                                         *)
(* CtrCore<C, F> is generic over the counter flavour F.  The trait is      *)
(* flavors.rs; the six implementations (ctr32, ctr64, ctr128) are          *)
(* modelled from their description: the counter is an unsigned integer of  *)
(* the flavour's width that wraps, the nonce is the IV read in the         *)
(* flavour's byte order, and a counter block is the nonce with the counter *)
(* added into its low-order field.  One toy bit stands for 32 bits: the    *)
(* 128 bit block is the four bits of a Block.                              *)
(***************************************************************************)

\* the flavours: counter width in toy bits, and byte order
CtrFlavors ==
    {[name |-> "Ctr32BE", bits |-> 1, be |-> TRUE],
     [name |-> "Ctr32LE", bits |-> 1, be |-> FALSE],
     [name |-> "Ctr64BE", bits |-> 2, be |-> TRUE],
     [name |-> "Ctr64LE", bits |-> 2, be |-> FALSE],
     [name |-> "Ctr128BE", bits |-> 4, be |-> TRUE],
     [name |-> "Ctr128LE", bits |-> 4, be |-> FALSE]}

\* the number of values of the flavour's Backend integer
CounterSpace(F) == 2 ^ F.bits

\* from_be_bytes / from_le_bytes of a whole block
ctr_from_bytes(F, block) ==
    IF F.be THEN (4 * block[1]) + block[2] ELSE block[1] + (4 * block[2])

\* to_be_bytes / to_le_bytes of a whole block
ctr_to_bytes(F, v) ==
    IF F.be THEN <<v \div 4, v % 4>> ELSE <<v % 4, v \div 4>>

\* CtrFlavor::load_nonce
load_nonce(F, block) == ctr_from_bytes(F, block)

\* CtrFlavor::generate_block(&self, nonce): the counter added, wrapping, into
\* the low-order field of the nonce
generate_block(F, counter, nonce) ==
    LET low == nonce % CounterSpace(F)
    IN  ctr_to_bytes(F, (nonce - low) + ((low + counter) % CounterSpace(F)))

\* CtrFlavor::increment
increment(F, counter) == (counter + 1) % CounterSpace(F)

\* CtrFlavor::from_backend
from_backend(F, v) == v

\* CtrFlavor::into_backend
into_backend(F, counter) == counter

\* F::default()
DefaultCounter == 0

\* CtrCore::inner_iv_init
ctr_inner_iv_init(c, F, iv) ==
    [cipher |-> c, flavor |-> F, nonce |-> load_nonce(F, iv), counter |-> DefaultCounter]

\* an iv_state that exports the nonce without the counter
ctr_iv_state_nonce_only(self) == generate_block(self.flavor, DefaultCounter, self.nonce)

\* CtrCore::iv_state
ctr_iv_state(self) == generate_block(self.flavor, self.counter, self.nonce)

\* SeekableStreamCipherCore::get_block_pos
ctr_get_block_pos(self) == into_backend(self.flavor, self.counter)

\* a set_block_pos that moves the counter by pos instead of setting it
ctr_set_block_pos_relative(self, pos) ==
    [self EXCEPT !.counter = (@ + from_backend(self.flavor, pos)) % CounterSpace(self.flavor)]

\* SeekableStreamCipherCore::set_block_pos
ctr_set_block_pos(self, pos) ==
    [self EXCEPT !.counter = from_backend(self.flavor, pos)]

\* a pre closure that forgets counter.increment()
ctr_pre_next_stuck(F, nonce, acc) ==
    [counter |-> acc.counter,
     tmp |-> Append(acc.tmp, generate_block(F, acc.counter, nonce))]

\* the body of the pre closure's loop:
\*   *block = counter.generate_block(nonce); counter.increment();
ctr_pre_next(F, nonce, acc) ==
    [counter |-> increment(F, acc.counter),
     tmp |-> Append(acc.tmp, generate_block(F, acc.counter, nonce))]

\* the pre closure over the n blocks of the call, chunk after chunk
RECURSIVE ctr_pre_from(_, _, _, _)
ctr_pre_from(F, nonce, acc, n) ==
    IF n = 0 THEN acc ELSE ctr_pre_from(F, nonce, ctr_pre_next(F, nonce, acc), n - 1)

\* an apply_keystream_blocks whose pre closure fills the whole batch for a tail, and
\* so counts every chunk as a full one
ctr_apply_keystream_whole_batches(self, blocks) ==
    LET W == CASE self.cipher.ty = "ni" -> NiParBlocks
               [] self.cipher.ty = "soft" -> FixsliceBlocks
               [] OTHER -> ParBlocks
        g == ctr_pre_from(self.flavor, self.nonce,
                          [counter |-> self.counter, tmp |-> << >>],
                          ((Len(blocks) + W - 1) \div W) * W)
        tmp == encrypt_blocks(self.cipher, SubSeq(g.tmp, 1, Len(blocks)))
    IN  [self |-> [self EXCEPT !.counter = g.counter],
         out |-> [i \in 1..Len(blocks) |-> xor(blocks[i], tmp[i])] \o << >>]

\* StreamCipherCore::apply_keystream_blocks: pre fills tmp with the counter
\* blocks, the cipher encrypts tmp, post is buf.xor_intmp2out()
ctr_apply_keystream_blocks(self, blocks) ==
    LET g == ctr_pre_from(self.flavor, self.nonce,
                          [counter |-> self.counter, tmp |-> << >>], Len(blocks))
        tmp == encrypt_blocks(self.cipher, g.tmp)
    IN  [self |-> [self EXCEPT !.counter = g.counter],
         out |-> [i \in 1..Len(blocks) |-> xor(blocks[i], tmp[i])] \o << >>]

\* longest buffer handed to apply_keystream_blocks: one block more than the
\* batch of the Kuznyechik backend
MaxCtrBlocks == 5

\* the buffers the callers hand to apply_keystream_blocks
CtrBuffers == {Buffer(0, 1), Buffer(1, 1), Buffer(2, 2), Buffer(MaxCtrBlocks, 1)}

\* the IVs: one whose low-order fields are all ones in either byte order
CtrIvs == {<<1, 2>>, <<3, 3>>}

\* what the caller remembers: the position it asked for and has not used yet
\* (sought), the position its data was processed from (start) and processed
\* again from (back); -1 stands for none
CtrIdle(K) == [phase |-> "idle", start |-> -1, sought |-> K, back |-> -1]

InitCtr ==
    /\ \E c \in ModeCiphers, F \in CtrFlavors, iv \in CtrIvs :
          /\ encrypt = ctr_inner_iv_init(c, F, iv)
          /\ given_iv = iv
    /\ decrypt = "none"
    /\ trace = CtrIdle(-1)
    /\ pt = << >> /\ ct = << >> /\ rt = << >>
    /\ NoDispatch /\ NoBatch

\* the instance processes some blocks the caller does not keep
CtrProcess ==
    /\ trace.phase = "idle"
    /\ \E blocks \in CtrBuffers :
          encrypt' = ctr_apply_keystream_blocks(encrypt, blocks).self
    /\ trace' = CtrIdle(-1)
    /\ UNCHANGED <<decrypt, pt, ct, rt, given_iv, dispatchVars, batchVars>>

\* set_block_pos(K), for every K of the counter's type
CtrSetBlockPos ==
    /\ \E K \in 0..(CounterSpace(encrypt.flavor) - 1) :
          /\ encrypt' = ctr_set_block_pos(encrypt, K)
          /\ trace' = IF trace.phase = "done" THEN CtrIdle(K)
                      ELSE [trace EXCEPT !.sought = K]
    /\ IF trace.phase = "done"
       THEN pt' = << >> /\ ct' = << >> /\ rt' = << >>
       ELSE UNCHANGED <<pt, ct, rt>>
    /\ UNCHANGED <<decrypt, given_iv, dispatchVars, batchVars>>

\* the caller applies the keystream to its data from the position it sought
CtrApplyKeystream ==
    /\ trace.phase = "idle" /\ trace.sought # -1
    /\ \E blocks \in CtrBuffers :
          LET r == ctr_apply_keystream_blocks(encrypt, blocks)
          IN  /\ encrypt' = r.self
              /\ pt' = blocks
              /\ ct' = r.out
    /\ rt' = << >>
    /\ trace' = [phase |-> "applied", start |-> trace.sought, sought |-> -1, back |-> -1]
    /\ UNCHANGED <<decrypt, given_iv, dispatchVars, batchVars>>

\* the caller applies the keystream again, to the output of the first pass,
\* from the position it sought after it
CtrApplyAgain ==
    /\ trace.phase = "applied" /\ trace.sought # -1
    /\ LET r == ctr_apply_keystream_blocks(encrypt, ct)
       IN  /\ encrypt' = r.self
           /\ rt' = r.out
    /\ trace' = [phase |-> "done", start |-> trace.start, sought |-> -1,
                 back |-> trace.sought]
    /\ UNCHANGED <<decrypt, pt, ct, given_iv, dispatchVars, batchVars>>

NextCtr ==
    \/ CtrProcess
    \/ CtrSetBlockPos
    \/ CtrApplyKeystream
    \/ CtrApplyAgain

SpecCtr == InitCtr /\ [][NextCtr]_vars

\* a fresh instance with the same key and nonce, positioned at K
CtrFreshAt(K) ==
    ctr_set_block_pos(ctr_inner_iv_init(encrypt.cipher, encrypt.flavor, given_iv), K)

\* C15: data to which the keystream was applied from some position are
\* restored by seeking back to that position and applying the keystream
\* again, and what the first pass XORed into the data is what a fresh
\* instance at that position XORs into zeros: it does not depend on the data.
CtrSelfInverse ==
    /\ (trace.phase = "done" /\ trace.back = trace.start) => rt = pt
    /\ trace.phase \in {"applied", "done"} =>
          LET zeros == [i \in 1..Len(pt) |-> DefaultBlock] \o << >>
              ks == ctr_apply_keystream_blocks(CtrFreshAt(trace.start), zeros).out
          IN  /\ Len(ct) = Len(pt)
              /\ \A i \in 1..Len(pt) : xor(ct[i], pt[i]) = ks[i]

\* the longest buffer, processed from a position other than the first, is
\* back after the second pass from the same position
CtrRestored ==
    /\ trace.phase = "done" /\ trace.back = trace.start /\ trace.start > 0
    /\ Len(pt) = MaxCtrBlocks /\ ct # pt /\ rt = pt

\* C16: right after set_block_pos(K), get_block_pos() is K; and a message
\* processed after set_block_pos(K), whatever the instance processed before,
\* comes out as from a fresh instance positioned at K, which XORs into block
\* i the encryption of the counter block of position K + i - 1.
CtrSeek ==
    /\ trace.sought # -1 => ctr_get_block_pos(encrypt) = trace.sought
    /\ (trace.phase = "applied" /\ trace.sought = -1) =>
          LET F == encrypt.flavor
              r == ctr_apply_keystream_blocks(CtrFreshAt(trace.start), pt)
          IN  /\ ct = r.out
              /\ encrypt = r.self
              /\ \A i \in 1..Len(pt) :
                    ct[i] = xor(pt[i], encrypt_block(encrypt.cipher,
                               generate_block(F, (trace.start + i - 1) % CounterSpace(F),
                                              load_nonce(F, given_iv))))

\* a message of several blocks was processed from the last position of a
\* counter of more than one bit, so that the counter wrapped within it
CtrSoughtLast ==
    /\ trace.phase = "applied" /\ trace.sought = -1
    /\ encrypt.flavor.bits > 1
    /\ trace.start = CounterSpace(encrypt.flavor) - 1
    /\ Len(pt) >= 2
    /\ ctr_get_block_pos(encrypt) < trace.start

(***************************************************************************)
(* CTR: an instance resumed from the exported IV state                     *)
(***************************************************************************)

\* what the resumed instance is measured against: the number of blocks the
\* original had processed when its iv_state() was taken, -1 before that
NotResumed == [resumed_at |-> -1]

InitCtrResume ==
    /\ \E c \in ModeCiphers, F \in CtrFlavors, iv \in CtrIvs :
          /\ encrypt = ctr_inner_iv_init(c, F, iv)
          /\ given_iv = iv
    /\ decrypt = "none"
    /\ trace = NotResumed
    /\ pt = << >> /\ ct = << >> /\ rt = << >>
    /\ NoDispatch /\ NoBatch

\* the original instance processes some more blocks
CtrOriginalApply ==
    /\ \E n \in 1..(MaxCtrBlocks - Len(pt)) :
          LET blocks == Buffer(n, Len(pt) + 1)
              r == ctr_apply_keystream_blocks(encrypt, blocks)
          IN  /\ encrypt' = r.self
              /\ pt' = pt \o blocks
              /\ ct' = ct \o r.out
    /\ UNCHANGED <<decrypt, rt, trace, given_iv, dispatchVars, batchVars>>

\* a new instance is made by inner_iv_init from the same cipher and the
\* iv_state() of the original
CtrResume ==
    /\ decrypt' = ctr_inner_iv_init(encrypt.cipher, encrypt.flavor, ctr_iv_state(encrypt))
    /\ trace' = [resumed_at |-> Len(ct)]
    /\ rt' = << >>
    /\ UNCHANGED <<encrypt, pt, ct, given_iv, dispatchVars, batchVars>>

\* the resumed instance processes some of the blocks the original processed
\* after its state was taken
CtrResumedApply ==
    /\ trace.resumed_at # -1
    /\ \E n \in 1..(Len(pt) - (trace.resumed_at + Len(rt))) :
          LET from == trace.resumed_at + Len(rt)
              r == ctr_apply_keystream_blocks(decrypt, SubSeq(pt, from + 1, from + n))
          IN  /\ decrypt' = r.self
              /\ rt' = rt \o r.out
    /\ UNCHANGED <<encrypt, pt, ct, trace, given_iv, dispatchVars, batchVars>>

NextCtrResume ==
    \/ CtrOriginalApply
    \/ CtrResume
    \/ CtrResumedApply

SpecCtrResume == InitCtrResume /\ [][NextCtrResume]_vars

\* C19: an instance made by inner_iv_init from the cipher and the iv_state()
\* of an original that had processed any number of blocks starts with the
\* default counter and turns the data the original processed afterwards into
\* the same output, however the calls are split; once it has caught up, its
\* iv_state() is the original's.
CtrResumeSame ==
    trace.resumed_at # -1 =>
       /\ ctr_get_block_pos(decrypt) = Len(rt) % CounterSpace(decrypt.flavor)
       /\ \A j \in 1..Len(rt) : rt[j] = ct[trace.resumed_at + j]
       /\ (trace.resumed_at + Len(rt) = Len(ct)) =>
             ctr_iv_state(decrypt) = ctr_iv_state(encrypt)

\* the state was taken after some blocks, and the resumed instance has
\* followed the original over the wrap of a counter of more than one bit
CtrResumedOverWrap ==
    /\ trace.resumed_at >= 1 /\ Len(rt) >= 2
    /\ encrypt.flavor.bits > 1
    /\ trace.resumed_at < CounterSpace(encrypt.flavor)
    /\ trace.resumed_at + Len(rt) > CounterSpace(encrypt.flavor)
    /\ rt # SubSeq(pt, trace.resumed_at + 1, trace.resumed_at + Len(rt))

(***************************************************************************)
(* IvState of the modes other than CTR: iv_state() handed to inner_iv_init *)
(***************************************************************************)

\* the types that implement InnerIvInit and IvState, CfbCore and Cfb8 once
\* for each of their two directions
IvModes ==
    {"cbc::Encrypt", "cbc::Decrypt", "pcbc::Encrypt", "pcbc::Decrypt",
     "ige::Encrypt", "ige::Decrypt", "CfbCore encrypting", "CfbCore decrypting",
     "Cfb8 encrypting", "Cfb8 decrypting", "Ofb"}

\* InnerIvInit::inner_iv_init of the type
mode_inner_iv_init(mode, c, iv) ==
    CASE mode \in {"cbc::Encrypt", "cbc::Decrypt"} -> cbc_inner_iv_init(c, iv)
      [] mode \in {"pcbc::Encrypt", "pcbc::Decrypt"} -> pcbc_inner_iv_init(c, iv)
      [] mode = "ige::Encrypt" -> ige_encrypt_inner_iv_init(c, iv)
      [] mode = "ige::Decrypt" -> ige_decrypt_inner_iv_init(c, iv)
      [] mode \in {"CfbCore encrypting", "CfbCore decrypting"} -> cfb_inner_iv_init(c, iv)
      [] mode \in {"Cfb8 encrypting", "Cfb8 decrypting"} -> cfb8_inner_iv_init(c, iv)
      [] mode = "Ofb" -> ofb_inner_iv_init(c, iv)

\* IvState::iv_state of the type
mode_iv_state(mode, self) ==
    CASE mode \in {"cbc::Encrypt", "cbc::Decrypt"} -> cbc_iv_state(self)
      [] mode \in {"pcbc::Encrypt", "pcbc::Decrypt"} -> pcbc_iv_state(self)
      [] mode \in {"ige::Encrypt", "ige::Decrypt"} -> ige_iv_state(self)
      [] mode \in {"CfbCore encrypting", "CfbCore decrypting"} -> cfb_iv_state(self)
      [] mode \in {"Cfb8 encrypting", "Cfb8 decrypting"} -> cfb8_iv_state(self)
      [] mode = "Ofb" -> ofb_iv_state(self)

\* the type's operation on one block (one byte, the first of the block, for Cfb8)
mode_block_inout_mut(mode, self, block) ==
    CASE mode = "cbc::Encrypt" -> cbc_encrypt_block_inout_mut(self, block)
      [] mode = "cbc::Decrypt" -> cbc_decrypt_block_inout_mut(self, block)
      [] mode = "pcbc::Encrypt" -> pcbc_encrypt_block_inout_mut(self, block)
      [] mode = "pcbc::Decrypt" -> pcbc_decrypt_block_inout_mut(self, block)
      [] mode = "ige::Encrypt" -> ige_encrypt_block_inout_mut(self, block)
      [] mode = "ige::Decrypt" -> ige_decrypt_block_inout_mut(self, block)
      [] mode = "CfbCore encrypting" -> cfb_encrypt_block_inout_mut(self, block)
      [] mode = "CfbCore decrypting" -> cfb_decrypt_block_inout_mut(self, block)
      [] mode = "Cfb8 encrypting" -> cfb8_encrypt_block_inout_mut(self, <<block[1]>>)
      [] mode = "Cfb8 decrypting" -> cfb8_decrypt_block_inout_mut(self, <<block[1]>>)
      [] mode = "Ofb" -> ofb_encrypt_block_inout_mut(self, block)

\* the IVs of a type: two blocks for IGE, one for the others
ModeIvs(mode) ==
    IF mode \in {"ige::Encrypt", "ige::Decrypt"}
    THEN {h1 \o h2 : h1 \in IvHalves, h2 \in IvHalves}
    ELSE IvHalves

\* nothing rebuilt yet: the type, and the number of blocks processed
IvStateStart(mode) == [mode |-> mode, n |-> 0, rebuilt |-> FALSE]

InitIvState ==
    /\ \E mode \in IvModes, c \in ModeCiphers :
          \E iv \in ModeIvs(mode) :
             /\ encrypt = mode_inner_iv_init(mode, c, iv)
             /\ given_iv = iv
             /\ trace = IvStateStart(mode)
    /\ decrypt = "none"
    /\ pt = << >> /\ ct = << >> /\ rt = << >>
    /\ NoDispatch /\ NoBatch

\* the instance processes one more block; an instance rebuilt from it earlier
\* is dropped
IvStateProcess ==
    /\ trace.n < MaxBlocks
    /\ \E block \in MsgBlocks :
          encrypt' = mode_block_inout_mut(trace.mode, encrypt, block).self
    /\ decrypt' = "none"
    /\ trace' = [trace EXCEPT !.n = @ + 1, !.rebuilt = FALSE]
    /\ rt' = << >>
    /\ UNCHANGED <<pt, ct, given_iv, dispatchVars, batchVars>>

\* iv_state() is read and handed, with the same cipher, to inner_iv_init
IvStateRebuild ==
    /\ ~trace.rebuilt
    /\ rt' = mode_iv_state(trace.mode, encrypt)
    /\ decrypt' = mode_inner_iv_init(trace.mode, encrypt.cipher, rt')
    /\ trace' = [trace EXCEPT !.rebuilt = TRUE]
    /\ UNCHANGED <<encrypt, pt, ct, given_iv, dispatchVars, batchVars>>

NextIvState ==
    \/ IvStateProcess
    \/ IvStateRebuild

SpecIvState == InitIvState /\ [][NextIvState]_vars

\* C18: for CBC, PCBC and IGE in both directions, CFB, CFB-8 and OFB, after
\* any number of blocks the instance inner_iv_init makes from the same cipher
\* and the value of iv_state() equals the original; before any block that
\* value is the IV the original was made from.
IvStateRoundTrip ==
    /\ trace.rebuilt => decrypt = encrypt
    /\ (trace.rebuilt /\ trace.n = 0) => rt = given_iv

\* an IGE instance whose two halves differ, and differ from the IV it was
\* made from, was rebuilt after three blocks
IgeRebuiltLate ==
    /\ trace.rebuilt /\ trace.n = MaxBlocks
    /\ trace.mode \in {"ige::Encrypt", "ige::Decrypt"}
    /\ encrypt.x # encrypt.y
    /\ rt # given_iv
    /\ decrypt = encrypt

(***************************************************************************)
(* Magma / Gost89 (magma/src/lib.rs).  A u32 is four bits, read from two   *)
(* bytes; a block is two of them, a key eight.  The round function S::g    *)
(* (sboxes.rs) is a black box of the description: the round key added      *)
(* modulo the word, a substitution of each digit, a rotation to the left.  *)
(***************************************************************************)

\* to_u32(chunk): u32::from_be_bytes
to_u32(chunk) == (4 * chunk[1]) + chunk[2]

\* u32::to_be_bytes
to_be_bytes(v) == <<v \div 4, v % 4>>

\* Sbox::g(a, k)
Sbox_g(a, k) ==
    LET t == (a + k) % 16
        s == (<<1, 3, 0, 2>>)[(t % 4) + 1] + (4 * (<<2, 0, 1, 3>>)[(t \div 4) + 1])
    IN  ((2 * s) % 16) + (s \div 8)

\* Gost89::new: key.chunks_exact(4) read as eight u32
magma_new(key) ==
    [key |-> [i \in 1..8 |-> to_u32(SubSeq(key, (2 * i) - 1, 2 * i))] \o << >>]

\* v = (v.1, v.0 ^ S::g(v.1, self.key[i]))
magma_round(self, v, i) ==
    <<v[2], XorBits(v[1], Sbox_g(v[2], self.key[i + 1]), 4)>>

\* for i in 0..8
magma_forward == <<0, 1, 2, 3, 4, 5, 6, 7>>

\* for i in (0..8).rev()
magma_rev == <<7, 6, 5, 4, 3, 2, 1, 0>>

\* the key indices of encrypt_block_inout, in the order of its loops
magma_encrypt_order == magma_forward \o magma_forward \o magma_forward \o magma_rev

\* the key indices of a decrypt_block_inout whose loops are those of encryption
magma_decrypt_order_as_encrypt == magma_encrypt_order

\* the key indices of decrypt_block_inout, in the order of its loops
magma_decrypt_order == magma_forward \o magma_rev \o magma_rev \o magma_rev

\* the rounds of a block operation, from the r-th on
RECURSIVE magma_rounds(_, _, _, _)
magma_rounds(self, v, order, r) ==
    IF r > Len(order) THEN v
    ELSE LET nv == magma_round(self, v, order[r])
         IN  IF nv \in Reg \X Reg THEN magma_rounds(self, nv, order, r + 1) ELSE nv

\* the body the two block operations share: read two u32, run the rounds,
\* write v.1 then v.0
magma_block_inout(self, b, order) ==
    LET v == magma_rounds(self, <<to_u32(SubSeq(b, 1, 2)), to_u32(SubSeq(b, 3, 4))>>,
                          order, 1)
    IN  to_be_bytes(v[2]) \o to_be_bytes(v[1])

\* Gost89::encrypt_block_inout
magma_encrypt_block_inout(self, b) == magma_block_inout(self, b, magma_encrypt_order)

\* Gost89::decrypt_block_inout
magma_decrypt_block_inout(self, b) == magma_block_inout(self, b, magma_decrypt_order)

(***************************************************************************)
(* Kuznyechik, software backend (kuznyechik/src/soft/mod.rs), at the scale *)
(* of the model: a block of two bytes, so that l_step has the byte it      *)
(* replaces and one table term, and a key of two blocks.  P and P_INV are  *)
(* those of the SSE2 backend; GF (soft/consts.rs) is a table of the        *)
(* multiplication by a constant in the field of the byte values.           *)
(***************************************************************************)

\* consts::GF[..]: multiplication by 2 in GF(4)
GF == <<0, 2, 3, 1>>

\* get_idx(b, i) = b.wrapping_sub(i) & 0x0F
get_idx(b, i) == (b + (BlockSize - (i % BlockSize))) % BlockSize

\* l_step(msg, i)
l_step(msg, i) ==
    LET top == get_idx(BlockSize - 1, i)
        v == ByteXor(msg[top + 1], GF[msg[get_idx(BlockSize - 2, i) + 1] + 1])
    IN  [msg EXCEPT ![top + 1] = v]

\* unroll16! {i, { l_step(block, i) }}, from the i-th step on
RECURSIVE l_steps(_, _)
l_steps(msg, i) ==
    IF i >= BlockSize THEN msg
    ELSE LET m == l_step(msg, i)
         IN  IF m \in Block THEN l_steps(m, i + 1) ELSE m

\* unroll16! {i, { l_step(block, 15 - i) }}, from the i-th step on
RECURSIVE l_steps_inv(_, _)
l_steps_inv(msg, i) ==
    IF i >= BlockSize THEN msg
    ELSE LET m == l_step(msg, (BlockSize - 1) - i)
         IN  IF m \in Block THEN l_steps_inv(m, i + 1) ELSE m

\* block[i] = P[block[i] as usize], for every i
s_bytes(block, sbox) == [i \in 1..BlockSize |-> sbox[block[i] + 1]] \o << >>

\* lsx(block, key)
lsx(block, key) == l_steps(s_bytes(xor(block, key), P), 0)

\* lsx_inv(block, key)
lsx_inv(block, key) == s_bytes(l_steps_inv(xor(block, key), 0), P_INV)

\* get_c(n)
get_c(n) == l_steps([i \in 1..BlockSize |-> IF i = BlockSize THEN n % 4 ELSE 0] \o << >>, 0)

\* one pass of the loop of f(k1, k2, n), k = <<k1, k2>>
f_step(k, n, i) ==
    LET k2 == xor(k[2], lsx(k[1], get_c((8 * n) + (2 * i) + 1)))
    IN  <<xor(k[1], lsx(k2, get_c((8 * n) + (2 * i) + 2))), k2>>

\* f(k1, k2, n): for i in 0..4, from the i-th pass on
RECURSIVE f(_, _, _)
f(k, n, i) ==
    IF i >= 4 THEN k
    ELSE LET nk == f_step(k, n, i)
         IN  IF nk \in Block \X Block THEN f(nk, n, i + 1) ELSE nk

\* the loop of new(): for i in 1..5 { f(&mut k1, &mut k2, i - 1); keys[2 * i] = k1;
\* keys[2 * i + 1] = k2 }
RECURSIVE kuz_soft_keys(_, _, _)
kuz_soft_keys(keys, k, i) ==
    IF i >= 5 THEN keys
    ELSE LET nk == f(k, i - 1, 0)
         IN  IF nk \in Block \X Block THEN kuz_soft_keys(keys \o nk, nk, i + 1) ELSE keys

\* soft::Kuznyechik::new(key)
kuz_soft_new(key) ==
    LET k == <<SubSeq(key, 1, BlockSize), SubSeq(key, BlockSize + 1, 2 * BlockSize)>>
    IN  [keys |-> kuz_soft_keys(k, k, 1) \o << >>]

\* unroll9! {i, { lsx(&mut b, &self.keys[i]) }}, from the i-th on
RECURSIVE kuz_soft_lsx_from(_, _, _)
kuz_soft_lsx_from(self, b, i) ==
    IF i >= 9 THEN b
    ELSE LET nb == lsx(b, self.keys[i + 1])
         IN  IF nb \in Block THEN kuz_soft_lsx_from(self, nb, i + 1) ELSE nb

\* unroll9! {i, { lsx_inv(&mut b, &self.keys[9 - i]) }}, from the i-th on
RECURSIVE kuz_soft_lsx_inv_from(_, _, _)
kuz_soft_lsx_inv_from(self, b, i) ==
    IF i >= 9 THEN b
    ELSE LET nb == lsx_inv(b, self.keys[(9 - i) + 1])
         IN  IF nb \in Block THEN kuz_soft_lsx_inv_from(self, nb, i + 1) ELSE nb

\* soft::Kuznyechik::encrypt_block_inout
kuz_soft_encrypt_block_inout(self, block) ==
    xor(kuz_soft_lsx_from(self, block, 0), self.keys[10])

\* soft::Kuznyechik::decrypt_block_inout
kuz_soft_decrypt_block_inout(self, block) ==
    xor(kuz_soft_lsx_inv_from(self, block, 0), self.keys[1])

(***************************************************************************)
(* Magma and Kuznyechik as block ciphers: a block or a buffer encrypted    *)
(* and then decrypted under the same key                                   *)
(***************************************************************************)

\* BlockEncrypt::encrypt_block of the three implementations
block_encrypt(c, b) ==
    CASE c.ty = "Gost89" -> magma_encrypt_block_inout(c.obj, b)
      [] c.ty = "Kuznyechik soft" -> kuz_soft_encrypt_block_inout(c.obj, b)
      [] c.ty = "Kuznyechik" -> kuz_encrypt_block_inout(c.obj, b)

\* BlockDecrypt::decrypt_block of the three implementations
block_decrypt(c, b) ==
    CASE c.ty = "Gost89" -> magma_decrypt_block_inout(c.obj, b)
      [] c.ty = "Kuznyechik soft" -> kuz_soft_decrypt_block_inout(c.obj, b)
      [] c.ty = "Kuznyechik" -> kuz_decrypt_block_inout(c.obj, b)

\* BlockEncrypt::encrypt_blocks: the SSE2 backend has its own batch routine,
\* the other two the block operation on each block in turn
blocks_encrypt(c, buf) ==
    IF c.ty = "Kuznyechik" THEN kuz_encrypt_blocks_with_pre(c.obj, buf)
    ELSE [i \in 1..Len(buf) |-> block_encrypt(c, buf[i])] \o << >>

\* BlockDecrypt::decrypt_blocks
blocks_decrypt(c, buf) ==
    IF c.ty = "Kuznyechik" THEN kuz_decrypt_blocks_with_pre(c.obj, buf)
    ELSE [i \in 1..Len(buf) |-> block_decrypt(c, buf[i])] \o << >>

\* the keys of Magma: eight u32
MagmaKeys ==
    {<<1, 2, 3, 0, 0, 1, 2, 2, 3, 3, 1, 0, 2, 1, 0, 3>>,
     <<0, 0, 0, 0, 3, 3, 3, 3, 0, 1, 0, 1, 2, 2, 1, 3>>}

\* the keys of Kuznyechik: every first block, two second blocks
KuzKeys == {k1 \o k2 : k1 \in Block, k2 \in {<<3, 0>>, <<0, 1>>}}

\* the blocks of a cipher: two u32 for Magma
CipherBlocks(c) ==
    IF c.ty = "Gost89" THEN {b1 \o b2 : b1 \in Block, b2 \in Block} ELSE Block

\* the buffers handed to the batch operations: none, two and
\* MaxCtrBlocks blocks, one more than the batch of the SSE2 backend
CipherBuffers(c) ==
    IF c.ty = "Gost89"
    THEN {[i \in 1..n |-> Buffer(2, i)[1] \o Buffer(2, i)[2]] \o << >> : n \in {0, 2, MaxCtrBlocks}}
    ELSE {Buffer(n, 1) : n \in {0, 2, MaxCtrBlocks}}

\* what the caller did last, and whether with the batch operations
CipherStage(stage, batch) == [stage |-> stage, batch |-> batch]

InitCiphers ==
    /\ encrypt \in {[ty |-> "Gost89", obj |-> magma_new(key)] : key \in MagmaKeys}
                   \cup {[ty |-> "Kuznyechik soft", obj |-> kuz_soft_new(key)] : key \in KuzKeys}
                   \cup {[ty |-> "Kuznyechik", obj |-> kuz_new(key)] : key \in KuzKeys}
    /\ decrypt = "none"
    /\ trace = CipherStage("new", FALSE)
    /\ pt = << >> /\ ct = << >> /\ rt = << >> /\ given_iv = << >>
    /\ NoDispatch /\ NoBatch

\* encrypt_block
CipherEncryptBlock ==
    /\ trace.stage = "new"
    /\ \E b \in CipherBlocks(encrypt) :
          /\ pt' = <<b>>
          /\ ct' = <<block_encrypt(encrypt, b)>>
    /\ trace' = CipherStage("encrypted", FALSE)
    /\ UNCHANGED <<encrypt, decrypt, rt, given_iv, dispatchVars, batchVars>>

\* decrypt_block on what encrypt_block returned
CipherDecryptBlock ==
    /\ trace = CipherStage("encrypted", FALSE)
    /\ rt' = <<block_decrypt(encrypt, ct[1])>>
    /\ trace' = CipherStage("decrypted", FALSE)
    /\ UNCHANGED <<encrypt, decrypt, pt, ct, given_iv, dispatchVars, batchVars>>

\* encrypt_blocks
CipherEncryptBlocks ==
    /\ trace.stage = "new"
    /\ \E buf \in CipherBuffers(encrypt) :
          /\ pt' = buf
          /\ ct' = blocks_encrypt(encrypt, buf)
    /\ trace' = CipherStage("encrypted", TRUE)
    /\ UNCHANGED <<encrypt, decrypt, rt, given_iv, dispatchVars, batchVars>>

\* decrypt_blocks on what encrypt_blocks returned
CipherDecryptBlocks ==
    /\ trace = CipherStage("encrypted", TRUE)
    /\ rt' = blocks_decrypt(encrypt, ct)
    /\ trace' = CipherStage("decrypted", TRUE)
    /\ UNCHANGED <<encrypt, decrypt, pt, ct, given_iv, dispatchVars, batchVars>>

NextCiphers ==
    \/ CipherEncryptBlock
    \/ CipherDecryptBlock
    \/ CipherEncryptBlocks
    \/ CipherDecryptBlocks

SpecCiphers == InitCiphers /\ [][NextCiphers]_vars

\* C20: under Magma and under Kuznyechik (either backend), a block decrypted
\* after it was encrypted is the block, and a buffer put through
\* decrypt_blocks after encrypt_blocks is the buffer; Magma's decryption
\* takes its 32 round keys in the reverse of the order of encryption.
BlockRoundTrip ==
    /\ trace.stage = "decrypted" => rt = pt
    /\ trace.stage # "new" => Len(ct) = Len(pt)
    /\ (encrypt.ty = "Gost89" /\ trace.stage = "decrypted") =>
          /\ Len(magma_encrypt_order) = 32 /\ Len(magma_decrypt_order) = 32
          /\ \A r \in 1..32 : magma_decrypt_order[r] = magma_encrypt_order[33 - r]

\* a block that Magma changed came back from decrypt_block
MagmaBlockBack ==
    /\ encrypt.ty = "Gost89"
    /\ trace = CipherStage("decrypted", FALSE)
    /\ ct # pt /\ rt = pt

(***************************************************************************)
(* Construction from a byte slice                                          *)
(***************************************************************************)
\* the cipher types that can be keyed
KeyedNames == {"Aes128", "Aes192", "Aes256", "Kuznyechik", "Kuznyechik soft", "Gost89"}

AesNames == {"Aes128", "Aes192", "Aes256"}

\* a key size that counts four bytes for each u32 of Gost89, where the model has two
key_size_long_gost(name) ==
    CASE name = "Aes128" -> BlockSize
      [] name = "Aes192" -> BlockSize + (BlockSize \div 2)
      [] name = "Aes256" -> 2 * BlockSize
      [] name \in {"Kuznyechik", "Kuznyechik soft"} -> 2 * BlockSize
      [] name = "Gost89" -> 8 * 4

\* KeySizeUser::KeySize: U16, U24, U32 for AES; U32 for Kuznyechik (two blocks) and
\* for Gost89 (eight u32)
key_size(name) ==
    CASE name = "Aes128" -> BlockSize
      [] name = "Aes192" -> BlockSize + (BlockSize \div 2)
      [] name = "Aes256" -> 2 * BlockSize
      [] name \in {"Kuznyechik", "Kuznyechik soft"} -> 2 * BlockSize
      [] name = "Gost89" -> 8 * 2

\* KeyInit::new of each type; the AES types select their implementation first
key_init_new(name, key, aesni_present) ==
    CASE name \in AesNames         -> autodetect_new(name, key, aesni_present)
      [] name = "Kuznyechik"       -> kuz_new(key)
      [] name = "Kuznyechik soft"  -> kuz_soft_new(key)
      [] name = "Gost89"           -> magma_new(key)

\* KeyInit::new_from_slice: the length is compared with KeySize, and only a slice of
\* that length is handed to new(); the AES types read the CPU token inside new()
new_from_slice(name, key, cache, present) ==
    IF Len(key) # key_size(name)
    THEN [res |-> "InvalidLength", made |-> << >>, cache |-> cache, probed |-> 0,
          derived |-> 0]
    ELSE IF name \in AesNames
    THEN LET g == init_get(cache, present)
         IN  [res |-> "Ok", made |-> <<key_init_new(name, key, g.res)>>,
              cache |-> g.cache, probed |-> g.probed, derived |-> 1]
    ELSE [res |-> "Ok", made |-> <<key_init_new(name, key, FALSE)>>, cache |-> cache,
          probed |-> 0, derived |-> 1]

\* the bytes a caller draws its slices from, one more than the longest key
KeyMaterial(name) ==
    IF name = "Gost89"
    THEN <<1, 2, 3, 0, 0, 1, 2, 2, 3, 3, 1, 0, 2, 1, 0, 3, 1, 2>>
    ELSE <<3, 0, 1, 2, 2, 1>>

\* the slices offered to new_from_slice: prefixes of the material, among them the
\* empty one and those one byte short and one byte long
KeySlices(name) ==
    {SubSeq(KeyMaterial(name), 1, n) :
        n \in IF name = "Gost89" THEN {0, 15, 16, 17} ELSE 0..5}

InitKeyInit ==
    /\ cpu \in [aes : BOOLEAN, ssse3 : BOOLEAN]
    /\ aes_intrinsics = "uninit" /\ aes_ssse3_cpuid = "uninit"
    /\ objs = << >> /\ origin = << >> /\ ctrs = {} /\ call = NoCall
    /\ probes = 0 /\ expansions = 0
    /\ NoModes /\ NoBatch

\* what a returned new_from_slice leaves behind
KeyInitReturned(r, name, key) ==
    /\ aes_intrinsics' = r.cache
    /\ probes' = probes + r.probed
    /\ expansions' = expansions + r.derived
    /\ objs' = objs \o r.made
    /\ call' = [op |-> "new_from_slice", name |-> name, input |-> key, res |-> r.res,
                objs_before |-> objs, expansions_before |-> expansions]

\* T::new_from_slice(key) for a slice of any length
NewFromSlice ==
    /\ call.op = "none"
    /\ Len(objs) < MaxObjs
    /\ \E name \in KeyedNames :
          \E key \in KeySlices(name) :
              KeyInitReturned(new_from_slice(name, key, aes_intrinsics, aes_present(cpu)),
                              name, key)
    /\ UNCHANGED <<cpu, aes_ssse3_cpuid, origin, ctrs, modeVars, batchVars>>

NextKeyInit ==
    \/ NewFromSlice
    \/ Continue

SpecKeyInit == InitKeyInit /\ [][NextKeyInit]_vars

\* the key sizes in bytes: 16, 24 and 32 for AES, 32 for Kuznyechik and Magma
KeyBytes(name) ==
    CASE name = "Aes128" -> 16
      [] name = "Aes192" -> 24
      [] name \in {"Aes256", "Kuznyechik", "Kuznyechik soft", "Gost89"} -> 32

\* the bytes one byte of the model stands for: a block of AES and of Kuznyechik is
\* 16 bytes, a u32 of Gost89 is 4 bytes
BytesPerByte(name) == IF name = "Gost89" THEN 4 \div 2 ELSE 16 \div BlockSize

\* C21: a slice whose length is not the key size of the type (16, 24, 32 bytes for
\* Aes128, Aes192, Aes256; 32 bytes for Kuznyechik and Magma) is refused with
\* InvalidLength, no key schedule having been derived and no object made; a slice of
\* the key size always gives the object that new() builds from it
KeyLengthChecked ==
    call.op = "new_from_slice" =>
        IF Len(call.input) * BytesPerByte(call.name) = KeyBytes(call.name)
        THEN /\ call.res = "Ok"
             /\ Len(objs) = Len(call.objs_before) + 1
             /\ SubSeq(objs, 1, Len(call.objs_before)) = call.objs_before
             /\ objs[Len(objs)] =
                    key_init_new(call.name, call.input, token_get(aes_intrinsics))
             /\ expansions = call.expansions_before + 1
        ELSE /\ call.res = "InvalidLength"
             /\ objs = call.objs_before
             /\ expansions = call.expansions_before

\* a Kuznyechik key one byte short was refused after an Aes192 was built
ShortKuznyechikKeyRefused ==
    /\ call.op = "new_from_slice"
    /\ call.name = "Kuznyechik"
    /\ Len(call.input) = key_size("Kuznyechik") - 1
    /\ call.res = "InvalidLength"
    /\ Len(objs) = 1
    /\ objs[1].name = "Aes192"
    /\ expansions = 1

(***************************************************************************)
(* Block and IV sizes                                                      *)
(***************************************************************************)
\* a block size that counts four bytes for each u32 of Gost89, where the model has two
block_size_long_gost(name) ==
    IF name = "Gost89" THEN 2 * 4 ELSE BlockSize

\* BlockSizeUser::BlockSize: U16 for the AES types and for Kuznyechik (one Block of
\* the model), U8 for Gost89 (two u32)
block_size(name) ==
    IF name = "Gost89" THEN 2 * 2 ELSE BlockSize

\* IvSizeUser::IvSize: C::BlockSize, and Sum<BlockSize<C>, BlockSize<C>> for IGE
iv_size(mode, name) ==
    IF mode \in {"ige::Encrypt", "ige::Decrypt"}
    THEN block_size(name) + block_size(name)
    ELSE block_size(name)

\* n bytes for a caller to hand over
SizedBytes(n, seed) == [i \in 1..n |-> (seed + (3 * i)) % 4] \o << >>

\* encrypt_block of a cipher keyed for the occasion
sized_encrypt(name, key, aesni_present, b) ==
    IF name \in AesNames
    THEN IF aesni_present
         THEN ni_encrypt_block_inout(ni_new(name, key), b)
         ELSE soft_encrypt_block_inout(soft_new(name, key), b)
    ELSE block_encrypt([ty |-> name, obj |-> key_init_new(name, key, FALSE)], b)

\* the type a mode's cipher is an instance of
cipher_name(c) == IF c.ty = "Kuznyechik" THEN "Kuznyechik" ELSE "Aes128"

InitSizes ==
    /\ encrypt = "none" /\ decrypt = "none"
    /\ pt = << >> /\ ct = << >> /\ rt = << >> /\ given_iv = << >>
    /\ trace = [stage |-> "none"]
    /\ NoDispatch /\ NoBatch

\* a cipher encrypts one Block of its BlockSize
SizesBlock ==
    /\ \E name \in KeyedNames, seed \in Byte, aesni_present \in BOOLEAN :
          /\ pt' = <<SizedBytes(block_size(name), seed)>>
          /\ ct' = <<sized_encrypt(name, SubSeq(KeyMaterial(name), 1, key_size(name)),
                                   aesni_present, SizedBytes(block_size(name), seed))>>
          /\ trace' = [stage |-> "block", name |-> name, mode |-> "none"]
    /\ encrypt' = "none" /\ given_iv' = << >>
    /\ UNCHANGED <<decrypt, rt, dispatchVars, batchVars>>

\* a block mode is built from a cipher and an Iv of its IvSize
SizesMode ==
    /\ \E mode \in IvModes, c \in ModeCiphers, seed \in Byte :
          /\ given_iv' = SizedBytes(iv_size(mode, cipher_name(c)), seed)
          /\ encrypt' = mode_inner_iv_init(mode, c,
                            SizedBytes(iv_size(mode, cipher_name(c)), seed))
          /\ trace' = [stage |-> "mode", name |-> cipher_name(c), mode |-> mode]
    /\ pt' = << >> /\ ct' = << >>
    /\ UNCHANGED <<decrypt, rt, dispatchVars, batchVars>>

\* a CTR core is built from a cipher and an Iv of its IvSize
SizesCtr ==
    /\ \E F \in CtrFlavors, c \in ModeCiphers, seed \in Byte :
          /\ given_iv' = SizedBytes(iv_size(F.name, cipher_name(c)), seed)
          /\ encrypt' = ctr_inner_iv_init(c, F,
                            SizedBytes(iv_size(F.name, cipher_name(c)), seed))
          /\ trace' = [stage |-> "ctr", name |-> cipher_name(c), mode |-> F.name]
    /\ pt' = << >> /\ ct' = << >>
    /\ UNCHANGED <<decrypt, rt, dispatchVars, batchVars>>

NextSizes ==
    \/ SizesBlock
    \/ SizesMode
    \/ SizesCtr

SpecSizes == InitSizes /\ [][NextSizes]_vars

\* the sizes of what the instance at hand took: the whole block came back
\* transformed, the whole Iv comes back from iv_state
SizesTaken(block_bytes) ==
    /\ trace.stage = "block" =>
          /\ Len(pt[1]) * BytesPerByte(trace.name) = block_bytes
          /\ Len(ct[1]) = Len(pt[1])
    /\ trace.stage = "mode" =>
          /\ Len(given_iv) * BytesPerByte(trace.name) =
                 IF trace.mode \in {"ige::Encrypt", "ige::Decrypt"}
                 THEN 2 * block_bytes ELSE block_bytes
          /\ mode_iv_state(trace.mode, encrypt) = given_iv
    /\ trace.stage = "ctr" =>
          /\ Len(given_iv) * BytesPerByte(trace.name) = block_bytes
          /\ ctr_iv_state(encrypt) = given_iv

ChainCiphers ==
    {[ty |-> "Kuznyechik", obj |-> kuz_new(k1 \o k2)] : k1 \in Block, k2 \in Block}
        \cup {[ty |-> "ni", obj |-> ni_new("Aes128", k)] : k \in Block}
        \cup {[ty |-> "soft", obj |-> soft_new("Aes128", k)] : k \in Block}

\* the message: two all-zero blocks
ZeroBlocks == <<DefaultBlock, DefaultBlock>>

InitChain ==
    /\ \E c \in ChainCiphers : encrypt = cbc_inner_iv_init(c, DefaultBlock)
    /\ given_iv = DefaultBlock
    /\ decrypt = "none" /\ trace = << >>
    /\ pt = << >> /\ ct = << >> /\ rt = << >>
    /\ NoDispatch /\ NoBatch

\* what cbc::Encrypt returned for the next block of the message
ChainSent(r) ==
    /\ encrypt' = r.self
    /\ ct' = Append(ct, r.out)
    /\ pt' = Append(pt, ZeroBlocks[Len(ct) + 1])

\* the next block of the message goes through cbc::Encrypt
ChainCbcEncrypt ==
    /\ Len(ct) < Len(ZeroBlocks)
    /\ ChainSent(cbc_encrypt_block_inout_mut(encrypt, ZeroBlocks[Len(ct) + 1]))
    /\ UNCHANGED <<decrypt, rt, trace, given_iv, dispatchVars, batchVars>>

\* the next block of the message goes through the cipher alone
ChainEcbEncrypt ==
    /\ Len(rt) < Len(ZeroBlocks)
    /\ rt' = Append(rt, encrypt_block(encrypt.cipher, ZeroBlocks[Len(rt) + 1]))
    /\ UNCHANGED <<encrypt, decrypt, pt, ct, trace, given_iv, dispatchVars, batchVars>>

NextChain ==
    \/ ChainCbcEncrypt
    \/ ChainEcbEncrypt

SpecChain == InitChain /\ [][NextChain]_vars

par_blocks(c) ==
    CASE c.ty = "ni"         -> NiParBlocks
      [] c.ty = "soft"       -> FixsliceBlocks
      [] c.ty = "Kuznyechik" -> ParBlocks

\* the closure pair of decrypt_blocks_with_pre: the first on a chunk of the batch
\* width, the second on the tail
decrypt_chunk(c, chunk) ==
    CASE c.ty = "ni" ->
            IF Len(chunk) = NiParBlocks THEN decrypt8(c.obj.decrypt_keys, chunk)
            ELSE ni_decrypt_tail(c.obj.decrypt_keys, chunk) \o << >>
      [] c.ty = "soft" ->
            IF Len(chunk) = FixsliceBlocks THEN fixslice_decrypt(c.obj.keys, chunk)
            ELSE soft_decrypt_tail(c.obj.keys, chunk) \o << >>
      [] c.ty = "Kuznyechik" ->
            IF Len(chunk) = ParBlocks THEN kuz_decrypt_par(c.obj, chunk)
            ELSE kuz_decrypt_tail(c.obj, chunk)

\* the index ranges process_chunks::<W> walks through a buffer of n blocks
chunk_ranges(W, n) == process_chunks(W, [i \in 1..n |-> i] \o << >>)

\* copy of a chunk's results to its place in the output
write_at(out, first, chunk) ==
    [i \in 1..Len(out) |->
        IF i >= first /\ i < first + Len(chunk) THEN chunk[(i - first) + 1] ELSE out[i]]
    \o << >>

(***************************************************************************)
(* CBC decryption of a whole buffer (modes/cbc/src/lib.rs:86-105).  The    *)
(* buffer is a pair of input and output that may be the same memory; the   *)
(* cipher decrypts a chunk into the temporary area, the closure finishes   *)
(* it there, and post_fn copies it to the output.                          *)
(***************************************************************************)
\* xor(&mut tmp_buf[0], iv); for i in 1..n { xor(&mut tmp_buf[i], &in_buf[i - 1]) }
cbc_decrypt_post(iv, in_buf, tmp_buf) ==
    [i \in 1..Len(in_buf) |-> xor(tmp_buf[i], IF i = 1 THEN iv ELSE in_buf[i - 1])]
    \o << >>

\* the walk's state after a chunk
cbc_walk_state(st, iv, written, same) ==
    [cipher |-> st.cipher, iv |-> iv, inb |-> IF same THEN written ELSE st.inb,
     outb |-> written]

\* an end of the closure that takes the IV from the buffer after post_fn wrote to it
cbc_decrypt_closure_end_iv_late(st, in_buf, r, written, same) ==
    cbc_walk_state(st, IF same THEN written[r[Len(r)]] ELSE in_buf[Len(r)], written, same)

\* the end of the closure:  *iv = in_buf[n - 1].clone(); post_fn(buf)
cbc_decrypt_closure_end(st, in_buf, r, written, same) ==
    cbc_walk_state(st, in_buf[Len(r)], written, same)

\* the closure handed to cipher.decrypt_blocks_with_pre_mut, on the chunk in_buf at
\* the indices r, the cipher having decrypted it into the temporary area
cbc_decrypt_closure(st, in_buf, r, same) ==
    cbc_decrypt_closure_end(st, in_buf, r,
        write_at(st.outb, r[1],
                 cbc_decrypt_post(st.iv, in_buf, decrypt_chunk(st.cipher, in_buf))),
        same)

RECURSIVE cbc_decrypt_walk(_, _, _, _)

\* the walk goes on after a chunk
cbc_decrypt_walk_on(nst, ranges, k, same) ==
    IF nst.iv \in Block THEN cbc_decrypt_walk(nst, ranges, k, same) ELSE nst

\* the walk, from the k-th chunk on
cbc_decrypt_walk(st, ranges, k, same) ==
    IF k > Len(ranges) THEN st
    ELSE cbc_decrypt_walk_on(
             cbc_decrypt_closure(st, SubSeq(st.inb, ranges[k][1],
                                            ranges[k][Len(ranges[k])]),
                                 ranges[k], same),
             ranges, k + 1, same)

\* cbc::Decrypt::decrypt_blocks_with_pre_mut on a buffer whose output is the input's
\* memory (same) or memory of its own
cbc_decrypt_blocks_with_pre_mut(self, blocks, same) ==
    LET st == cbc_decrypt_walk([cipher |-> self.cipher, iv |-> self.iv, inb |-> blocks,
                                outb |-> IF same THEN blocks
                                         ELSE [i \in 1..Len(blocks) |-> DefaultBlock]
                                              \o << >>],
                               chunk_ranges(par_blocks(self.cipher), Len(blocks)), 1,
                               same)
    IN  [self |-> [self EXCEPT !.iv = st.iv], out |-> st.outb]

\* the ciphers under the whole-buffer decryptors: a batch width of 4 twice, of 8 once
WalkCiphers ==
    ModeCiphers \cup {[ty |-> "soft", obj |-> soft_new("Aes128", <<2, 1>>)]}

\* no buffer at hand; the decryptor that takes the blocks one at a time
CbcBatchIdle(single) == [phase |-> "idle", single |-> single, same |-> FALSE]

InitCbcBatch ==
    /\ \E c \in WalkCiphers, iv \in IvHalves :
          /\ decrypt = cbc_inner_iv_init(c, iv)
          /\ trace = CbcBatchIdle(cbc_inner_iv_init(c, iv))
          /\ given_iv = iv
    /\ encrypt = "none"
    /\ pt = << >> /\ ct = << >> /\ rt = << >>
    /\ NoDispatch /\ NoBatch

\* what decrypt_blocks_with_pre_mut returned for the buffer
CbcBatchReturned(r, blocks, same) ==
    /\ decrypt' = r.self
    /\ rt' = r.out
    /\ ct' = blocks
    /\ given_iv' = decrypt.iv
    /\ trace' = [trace EXCEPT !.phase = "called", !.same = same]

\* decrypt.decrypt_blocks_with_pre_mut(buffer, ..) on a fresh buffer
CbcDecryptBlocksCall ==
    /\ trace.phase = "idle"
    /\ \E n \in 0..MaxN, seed \in {1, 2}, same \in BOOLEAN :
          CbcBatchReturned(cbc_decrypt_blocks_with_pre_mut(decrypt, Buffer(n, seed), same),
                           Buffer(n, seed), same)
    /\ pt' = << >>
    /\ UNCHANGED <<encrypt, dispatchVars, batchVars>>

\* what decrypt_block_inout_mut returned for the next block
CbcSingleReturned(r) ==
    /\ pt' = Append(pt, r.out)
    /\ trace' = [trace EXCEPT !.single = r.self]

\* the other decryptor takes the next block of the same input
CbcSingleDecrypt ==
    /\ trace.phase = "called"
    /\ Len(pt) < Len(ct)
    /\ CbcSingleReturned(cbc_decrypt_block_inout_mut(trace.single, ct[Len(pt) + 1]))
    /\ UNCHANGED <<encrypt, decrypt, ct, rt, given_iv, dispatchVars, batchVars>>

NextCbcBatch ==
    \/ CbcDecryptBlocksCall
    \/ CbcSingleDecrypt

SpecCbcBatch == InitCbcBatch /\ [][NextCbcBatch]_vars

\* C24: what cbc::Decrypt::decrypt_blocks_with_pre_mut wrote for a buffer, in place
\* or not, is block for block what decrypt_block_inout_mut writes for the same
\* blocks taken one at a time from the same IV, namely D(c[i]) XOR c[i - 1] with
\* the IV before the call for c[0]; and once both are through they hold the same
\* IV, the last block of the input
CbcBatchEqualsSingle ==
    trace.phase = "called" =>
        /\ Len(rt) = Len(ct)
        /\ \A i \in 1..Len(pt) : pt[i] = rt[i]
        /\ \A i \in 1..Len(ct) :
              rt[i] = xor(decrypt_block(decrypt.cipher, ct[i]),
                          IF i = 1 THEN given_iv ELSE ct[i - 1])
        /\ decrypt.iv = IF ct = << >> THEN given_iv ELSE ct[Len(ct)]
        /\ Len(pt) = Len(ct) => trace.single.iv = decrypt.iv

\* a buffer of two batches and a tail was decrypted in place by Kuznyechik under a
\* non-zero IV, and the block-by-block decryptor is through as well
CbcInPlaceTailCompared ==
    /\ trace.phase = "called"
    /\ trace.same
    /\ decrypt.cipher.ty = "Kuznyechik"
    /\ Len(ct) = (2 * ParBlocks) + 1
    /\ Len(pt) = Len(ct)
    /\ given_iv # DefaultBlock

(***************************************************************************)
(* CFB decryption of a whole buffer against block by block                 *)
(***************************************************************************)
InitCfbBatch ==
    /\ \E c \in WalkCiphers, iv \in IvHalves :
          /\ decrypt = cfb_inner_iv_init(c, iv)
          /\ trace = [phase |-> "idle", single |-> cfb_inner_iv_init(c, iv)]
          /\ given_iv = iv
    /\ encrypt = "none"
    /\ pt = << >> /\ ct = << >> /\ rt = << >>
    /\ NoDispatch /\ NoBatch

\* what decrypt_blocks_with_pre_mut returned for the buffer
CfbBatchReturned(r, blocks) ==
    /\ decrypt' = r.self
    /\ rt' = r.out
    /\ ct' = blocks
    /\ trace' = [trace EXCEPT !.phase = "called"]

\* decrypt.decrypt_blocks_with_pre_mut(buffer, ..) on a fresh buffer
CfbDecryptBlocksCall ==
    /\ trace.phase = "idle"
    /\ \E n \in 0..MaxN, seed \in {1, 2} :
          CfbBatchReturned(cfb_decrypt_blocks_with_pre_mut(decrypt, Buffer(n, seed)),
                           Buffer(n, seed))
    /\ UNCHANGED <<encrypt, pt, given_iv, dispatchVars, batchVars>>

\* what decrypt_block_inout_mut returned for the next block
CfbSingleReturned(r) ==
    /\ pt' = Append(pt, r.out)
    /\ trace' = [trace EXCEPT !.single = r.self]

\* the other decryptor takes the next block of the same input
CfbSingleDecrypt ==
    /\ trace.phase = "called"
    /\ Len(pt) < Len(ct)
    /\ CfbSingleReturned(cfb_decrypt_block_inout_mut(trace.single, ct[Len(pt) + 1]))
    /\ UNCHANGED <<encrypt, decrypt, ct, rt, given_iv, dispatchVars, batchVars>>

NextCfbBatch ==
    \/ CfbDecryptBlocksCall
    \/ CfbSingleDecrypt

SpecCfbBatch == InitCfbBatch /\ [][NextCfbBatch]_vars

\* C25: what CfbCore::decrypt_blocks_with_pre_mut wrote for a buffer is block for
\* block what decrypt_block_inout_mut writes for the same blocks taken one at a time
\* from the same IV, namely E(c[i - 1]) XOR c[i] with the IV for c[-1], whatever the
\* cipher's batch width; and once both are through they hold the same IV, the last
\* block of the input
CfbBatchEqualsSingle ==
    trace.phase = "called" =>
        /\ Len(rt) = Len(ct)
        /\ \A i \in 1..Len(pt) : pt[i] = rt[i]
        /\ \A i \in 1..Len(ct) :
              rt[i] = xor(encrypt_block(decrypt.cipher,
                                        IF i = 1 THEN given_iv ELSE ct[i - 1]), ct[i])
        /\ decrypt.iv = IF ct = << >> THEN given_iv ELSE ct[Len(ct)]
        /\ Len(pt) = Len(ct) => trace.single.iv = decrypt.iv

\* a buffer of one batch and a tail was decrypted over AES-NI under a non-zero IV,
\* and the block-by-block decryptor is through as well
CfbNiTailCompared ==
    /\ trace.phase = "called"
    /\ decrypt.cipher.ty = "ni"
    /\ Len(ct) = NiParBlocks + 1
    /\ Len(pt) = Len(ct)
    /\ given_iv # DefaultBlock

(***************************************************************************)
(* CTR over the same cipher with two batch widths                          *)
(***************************************************************************)
\* pairs of implementations of one cipher under one key: AES-NI (batches of 8) and
\* the constant-time AES (batches of 4); Kuznyechik has the one (batches of 4)
WidthPairs ==
    {<<[ty |-> "ni", obj |-> ni_new(nk.name, nk.key)],
       [ty |-> "soft", obj |-> soft_new(nk.name, nk.key)]>> :
          nk \in {[name |-> "Aes128", key |-> <<2, 1>>],
                  [name |-> "Aes256", key |-> <<3, 0, 1, 2>>]}}
    \cup {<<[ty |-> "Kuznyechik", obj |-> kuz_new(<<1, 2, 3, 0>>)],
            [ty |-> "Kuznyechik", obj |-> kuz_new(<<1, 2, 3, 0>>)]>>}

InitCtrWidth ==
    /\ \E p \in WidthPairs, F \in CtrFlavors, iv \in CtrIvs :
          /\ encrypt = ctr_inner_iv_init(p[1], F, iv)
          /\ decrypt = ctr_inner_iv_init(p[2], F, iv)
          /\ given_iv = iv
    /\ trace = [phase |-> "idle", start |-> DefaultCounter]
    /\ pt = << >> /\ ct = << >> /\ rt = << >>
    /\ NoDispatch /\ NoBatch

\* both instances are positioned at the same block
CtrWidthSeek ==
    /\ trace.phase = "idle"
    /\ \E K \in 0..(CounterSpace(encrypt.flavor) - 1) :
          /\ encrypt' = ctr_set_block_pos(encrypt, K)
          /\ decrypt' = ctr_set_block_pos(decrypt, K)
          /\ trace' = [phase |-> "idle", start |-> K]
    /\ UNCHANGED <<pt, ct, rt, given_iv, dispatchVars, batchVars>>

\* what the two calls of apply_keystream_blocks returned
CtrWidthReturned(r1, r2, blocks) ==
    /\ encrypt' = r1.self
    /\ decrypt' = r2.self
    /\ pt' = blocks
    /\ ct' = r1.out
    /\ rt' = r2.out

\* both instances apply their keystream to the same data
CtrWidthApply ==
    /\ trace.phase = "idle"
    /\ \E n \in 0..MaxN, seed \in {1, 2} :
          CtrWidthReturned(ctr_apply_keystream_blocks(encrypt, Buffer(n, seed)),
                           ctr_apply_keystream_blocks(decrypt, Buffer(n, seed)),
                           Buffer(n, seed))
    /\ trace' = [trace EXCEPT !.phase = "applied"]
    /\ UNCHANGED <<given_iv, dispatchVars, batchVars>>

NextCtrWidth ==
    \/ CtrWidthSeek
    \/ CtrWidthApply

SpecCtrWidth == InitCtrWidth /\ [][NextCtrWidth]_vars

\* C26: from start counter c0, apply_keystream_blocks writes for block i of the
\* buffer the input XOR E(generate_block(nonce, c0 + i)), the counter blocks taken
\* in buffer order, and leaves get_block_pos at c0 + N (in the counter's arithmetic);
\* the batch width of the cipher does not enter: two implementations of the same
\* cipher with different widths give the same output and the same position
CtrWidthIndependent ==
    trace.phase = "applied" =>
        /\ Len(ct) = Len(pt)
        /\ \A i \in 1..Len(pt) :
              ct[i] = xor(pt[i],
                          encrypt_block(encrypt.cipher,
                              generate_block(encrypt.flavor,
                                  (trace.start + (i - 1)) % CounterSpace(encrypt.flavor),
                                  encrypt.nonce)))
        /\ ctr_get_block_pos(encrypt) =
               (trace.start + Len(pt)) % CounterSpace(encrypt.flavor)
        /\ rt = ct
        /\ ctr_get_block_pos(decrypt) = ctr_get_block_pos(encrypt)

\* MaxN blocks, more than either batch, went through AES-NI and the constant-time
\* AES from a start counter that is not zero, without the counter wrapping
CtrTwoWidthsCompared ==
    /\ trace.phase = "applied"
    /\ encrypt.cipher.ty = "ni" /\ decrypt.cipher.ty = "soft"
    /\ Len(pt) = MaxN
    /\ trace.start > 0
    /\ ctr_get_block_pos(encrypt) = trace.start + MaxN

(***************************************************************************)
(* The walk of encrypt_blocks_with_pre, step by step: for each chunk the   *)
(* pre hook, the cipher's closure, the post hook                           *)
(***************************************************************************)
\* the closure pair of encrypt_blocks_with_pre: the first on a chunk of the batch
\* width, the second on the tail
encrypt_chunk(c, chunk) ==
    CASE c.ty = "ni" ->
            IF Len(chunk) = NiParBlocks THEN encrypt8(c.obj.encrypt_keys, chunk)
            ELSE ni_encrypt_tail(c.obj.encrypt_keys, chunk) \o << >>
      [] c.ty = "soft" ->
            IF Len(chunk) = FixsliceBlocks THEN fixslice_encrypt(c.obj.keys, chunk)
            ELSE soft_encrypt_tail(c.obj.keys, chunk) \o << >>
      [] c.ty = "Kuznyechik" ->
            IF Len(chunk) = ParBlocks THEN kuz_encrypt_par(c.obj, chunk)
            ELSE kuz_encrypt_tail(c.obj, chunk)

\* one call of a cipher routine on n blocks of the buffer from block first on
RoutineCall(kind, first, n) == [ev |-> "call", kind |-> kind, first |-> first, n |-> n]

\* calls as they would be if every tail went block by block through the single-block
\* routine
encrypt_chunk_calls_all_single(c, first, n) ==
    IF n = (CASE c.ty = "ni" -> NiParBlocks
              [] c.ty = "soft" -> FixsliceBlocks
              [] c.ty = "Kuznyechik" -> ParBlocks)
    THEN <<RoutineCall("batch", first, n)>>
    ELSE [j \in 1..n |-> RoutineCall("single", (first + j) - 1, 1)] \o << >>

\* the routine calls the closures make for a chunk of n blocks: the batch routine
\* (encrypt8, fixslice encrypt, the unrolled SSE2 rounds) on a full chunk; on a tail
\* encrypt1 / encrypt_block_inout for each block (ni.rs, sse2), and one fixslice
\* encrypt of a padded batch (soft.rs)
encrypt_chunk_calls(c, first, n) ==
    CASE c.ty = "ni" ->
            IF n = NiParBlocks THEN <<RoutineCall("batch", first, n)>>
            ELSE [j \in 1..n |-> RoutineCall("single", (first + j) - 1, 1)] \o << >>
      [] c.ty = "soft" ->
            IF n = FixsliceBlocks THEN <<RoutineCall("batch", first, n)>>
            ELSE <<RoutineCall("padded batch", first, n)>>
      [] c.ty = "Kuznyechik" ->
            IF n = ParBlocks THEN <<RoutineCall("batch", first, n)>>
            ELSE [j \in 1..n |-> RoutineCall("single", (first + j) - 1, 1)] \o << >>

\* a hook was run on chunk k
HookRun(ev, k) == [ev |-> ev, chunk |-> k]

\* the chunk the walk is at
WalkRange == chunk_ranges(par_blocks(cipher), Len(inbuf))[op.k]

InitWalk ==
    /\ cipher \in WalkCiphers
    /\ inbuf = << >> /\ outbuf = << >> /\ singles = << >>
    /\ op = [phase |-> "idle", k |-> 0]
    /\ encrypt = "none" /\ decrypt = "none"
    /\ pt = << >> /\ ct = << >> /\ rt = << >> /\ trace = << >> /\ given_iv = << >>
    /\ NoDispatch

\* cipher.encrypt_blocks_with_pre(buffer, pre_fn, post_fn) is entered
WalkStart ==
    /\ op.phase = "idle"
    /\ \E n \in 0..MaxN, seed \in {1, 2} : inbuf' = Buffer(n, seed)
    /\ outbuf' = << >> /\ singles' = << >> /\ trace' = << >>
    /\ op' = [phase |-> IF inbuf' = << >> THEN "done" ELSE "pre", k |-> 1]
    /\ UNCHANGED <<cipher, encrypt, decrypt, pt, ct, rt, given_iv, dispatchVars>>

\* pre_fn is called with the chunk; it selects the input
WalkPre ==
    /\ op.phase = "pre"
    /\ trace' = Append(trace, HookRun("pre", op.k))
    /\ op' = [op EXCEPT !.phase = "cipher"]
    /\ UNCHANGED <<cipher, inbuf, outbuf, singles, encrypt, decrypt, pt, ct, rt,
                   given_iv, dispatchVars>>

\* the cipher's closure transforms the chunk into the temporary area
WalkCipher ==
    /\ op.phase = "cipher"
    /\ singles' = encrypt_chunk(cipher,
                                SubSeq(inbuf, WalkRange[1], WalkRange[Len(WalkRange)]))
    /\ trace' = trace \o encrypt_chunk_calls(cipher, WalkRange[1], Len(WalkRange))
    /\ op' = [op EXCEPT !.phase = "post"]
    /\ UNCHANGED <<cipher, inbuf, outbuf, encrypt, decrypt, pt, ct, rt, given_iv,
                   dispatchVars>>

\* post_fn is called with the chunk; it copies the temporary area to the output,
\* and the walk goes to the next chunk
WalkPost ==
    /\ op.phase = "post"
    /\ outbuf' = outbuf \o singles
    /\ singles' = << >>
    /\ trace' = Append(trace, HookRun("post", op.k))
    /\ op' = IF Len(outbuf') = Len(inbuf) THEN [phase |-> "done", k |-> op.k]
             ELSE [phase |-> "pre", k |-> op.k + 1]
    /\ UNCHANGED <<cipher, inbuf, encrypt, decrypt, pt, ct, rt, given_iv, dispatchVars>>

\* the call returns
WalkReturn ==
    /\ op.phase = "done"
    /\ op' = [phase |-> "idle", k |-> 0]
    /\ inbuf' = << >> /\ outbuf' = << >> /\ trace' = << >>
    /\ UNCHANGED <<cipher, singles, encrypt, decrypt, pt, ct, rt, given_iv,
                   dispatchVars>>

NextWalk ==
    \/ WalkStart
    \/ WalkPre
    \/ WalkCipher
    \/ WalkPost
    \/ WalkReturn

SpecWalk == InitWalk /\ [][NextWalk]_vars

\* the positions of the log at which a routine of the given kind was called
CallsOf(kind) == {j \in 1..Len(trace) : trace[j].ev = "call" /\ trace[j].kind = kind}

\* the batch width the cipher's source gives
WidthOf(c) ==
    CASE c.ty = "ni" -> NiParBlocks
      [] c.ty = "soft" -> FixsliceBlocks
      [] c.ty = "Kuznyechik" -> ParBlocks

\* every block is transformed exactly once and in buffer order; around every chunk
\* the order is pre hook, cipher routines, post hook, and a chunk's post hook is
\* followed by nothing but the next chunk's pre hook
WalkInOrder ==
    /\ \A j \in 1..Len(trace) :
          LET e == trace[j]
              before == {i \in 1..(j - 1) : trace[i].ev = "call"}
          IN  CASE e.ev = "call" ->
                     /\ j > 1 /\ trace[j - 1].ev \in {"pre", "call"}
                     /\ e.first = IF before = {} THEN 1
                                  ELSE LET l == trace[CHOOSE i \in before :
                                                         \A h \in before : h <= i]
                                       IN  l.first + l.n
                [] e.ev = "pre" ->
                     IF j = 1 THEN e.chunk = 1
                     ELSE trace[j - 1] = HookRun("post", e.chunk - 1)
                [] e.ev = "post" ->
                     /\ j > 1 /\ trace[j - 1].ev = "call"
                     /\ \E i \in 1..(j - 1) :
                           /\ trace[i] = HookRun("pre", e.chunk)
                           /\ \A h \in (i + 1)..(j - 1) : trace[h].ev = "call"
    /\ op.phase = "done" =>
          /\ Len(outbuf) = Len(inbuf)
          /\ \A i \in 1..Len(inbuf) : outbuf[i] = encrypt_block(cipher, inbuf[i])
          /\ inbuf # << >> => trace[Len(trace)].ev = "post"

\* C27, as the code has it: for N blocks and batch width W there are floor(N/W)
\* calls of the batch routine on full chunks; the remaining N mod W blocks go
\* through the single-block routine one by one on AES-NI and Kuznyechik, and through
\* one more call of the batch routine on a padded batch on the constant-time AES;
\* every block is transformed exactly once, in buffer order, and the hooks and the
\* cipher alternate chunk by chunk as pre, cipher, post
PipelineWalk ==
    /\ WalkInOrder
    /\ op.phase = "done" =>
          /\ Cardinality(CallsOf("batch")) = Len(inbuf) \div WidthOf(cipher)
          /\ IF cipher.ty = "soft"
             THEN /\ CallsOf("single") = {}
                  /\ Cardinality(CallsOf("padded batch")) =
                         IF Len(inbuf) % WidthOf(cipher) = 0 THEN 0 ELSE 1
             ELSE /\ Cardinality(CallsOf("single")) = Len(inbuf) % WidthOf(cipher)
                  /\ CallsOf("padded batch") = {}

\* C27 as stated: floor(N/W) calls of the batch routine, and N mod W blocks through
\* the single-block routine, for every cipher
PipelineWalkAsStated ==
    /\ WalkInOrder
    /\ op.phase = "done" =>
          /\ Cardinality(CallsOf("batch") \cup CallsOf("padded batch")) =
                 Len(inbuf) \div WidthOf(cipher)
          /\ Cardinality(CallsOf("single")) = Len(inbuf) % WidthOf(cipher)

\* the constant-time AES has walked through two full chunks and a tail of one block
SoftTailWalked ==
    /\ op.phase = "done"
    /\ cipher.ty = "soft"
    /\ Len(inbuf) = (2 * FixsliceBlocks) + 1
    /\ Cardinality(CallsOf("batch")) = 2
    /\ Cardinality(CallsOf("padded batch")) = 1

(***************************************************************************)
(* The constant-time AES on fewer blocks than a batch (aes/src/soft.rs)    *)
(***************************************************************************)
SoftCiphers == {[ty |-> "soft", obj |-> soft_new(nk.name, nk.key)] : nk \in DispatchKeys}

\* the fixslice transform of a direction on a full batch
fixslice_transform(dir, keys, blocks) ==
    IF dir = "encrypt" THEN fixslice_encrypt(keys, blocks)
    ELSE fixslice_decrypt(keys, blocks)

\* the tail chunk process_chunks::<FixsliceBlocks> leaves of a buffer
tail_chunk(blocks) ==
    LET chunks == process_chunks(FixsliceBlocks, blocks)
    IN  chunks[Len(chunks)]

InitSoftShort ==
    /\ cipher \in SoftCiphers
    /\ inbuf = << >> /\ outbuf = << >> /\ singles = << >> /\ op = "idle"
    /\ encrypt = "none" /\ decrypt = "none"
    /\ pt = << >> /\ ct = << >> /\ rt = << >> /\ trace = << >> /\ given_iv = << >>
    /\ NoDispatch

\* the request, the batch handed to the transform, what the transform returned and
\* what was written to the output
SoftShortReturned(dir, request, batch, written) ==
    /\ inbuf' = request
    /\ singles' = batch
    /\ trace' = fixslice_transform(dir, cipher.obj.keys, batch)
    /\ outbuf' = written
    /\ op' = dir

\* encrypt_block_inout / decrypt_block_inout:
\*   let mut blocks = BatchBlocks::default(); blocks[0] = *block.get_in();
SoftBlockCall ==
    /\ op = "idle"
    /\ \E block \in Block :
          \/ SoftShortReturned("encrypt", <<block>>, [DefaultBatch EXCEPT ![1] = block],
                               <<soft_encrypt_block_inout(cipher.obj, block)>>)
          \/ SoftShortReturned("decrypt", <<block>>, [DefaultBatch EXCEPT ![1] = block],
                               <<soft_decrypt_block_inout(cipher.obj, block)>>)
    /\ UNCHANGED <<cipher, encrypt, decrypt, pt, ct, rt, given_iv, dispatchVars>>

\* the tail closure of encrypt_blocks_with_pre / decrypt_blocks_with_pre on the tail
\* of a buffer that is not a whole number of batches
SoftTailCall ==
    /\ op = "idle"
    /\ \E n \in 1..MaxN, seed \in Byte :
          /\ n % FixsliceBlocks # 0
          /\ \/ SoftShortReturned("encrypt", tail_chunk(Buffer(n, seed)),
                                  PadBatch(tail_chunk(Buffer(n, seed))),
                                  soft_encrypt_tail(cipher.obj.keys,
                                                    tail_chunk(Buffer(n, seed))) \o << >>)
             \/ SoftShortReturned("decrypt", tail_chunk(Buffer(n, seed)),
                                  PadBatch(tail_chunk(Buffer(n, seed))),
                                  soft_decrypt_tail(cipher.obj.keys,
                                                    tail_chunk(Buffer(n, seed))) \o << >>)
    /\ UNCHANGED <<cipher, encrypt, decrypt, pt, ct, rt, given_iv, dispatchVars>>

\* the call returns
SoftShortReturn ==
    /\ op # "idle"
    /\ inbuf' = << >> /\ outbuf' = << >> /\ singles' = << >> /\ trace' = << >>
    /\ op' = "idle"
    /\ UNCHANGED <<cipher, encrypt, decrypt, pt, ct, rt, given_iv, dispatchVars>>

NextSoftShort ==
    \/ SoftBlockCall
    \/ SoftTailCall
    \/ SoftShortReturn

SpecSoftShort == InitSoftShort /\ [][NextSoftShort]_vars

\* a batch that has block b in slot j and block p in every other slot
AloneIn(j, b, p) == [i \in BatchLanes |-> IF i = j THEN b ELSE p] \o << >>

\* C28: for a single block and for a tail of n blocks the constant-time AES hands the
\* transform a full batch that has the n blocks in its first n slots and default
\* blocks in the others, and writes the first n results and nothing else; n is at
\* least 1 and never more than the batch; and each block written is the transform
\* of its own input block, whatever is in the other slots of the batch
SoftShortRequests ==
    op # "idle" =>
        LET n == Len(inbuf)
        IN  /\ n >= 1 /\ n <= FixsliceBlocks
            /\ Len(singles) = FixsliceBlocks
            /\ \A j \in BatchLanes :
                  singles[j] = IF j <= n THEN inbuf[j] ELSE DefaultBlock
            /\ Len(outbuf) = n
            /\ \A j \in 1..n :
                  /\ outbuf[j] = trace[j]
                  /\ \A p \in MsgBlocks :
                        outbuf[j] = fixslice_transform(op, cipher.obj.keys,
                                                       AloneIn(j, inbuf[j], p))[j]

\* a tail of three blocks that are not default blocks was decrypted by Aes192
SoftTailOfThree ==
    /\ op = "decrypt"
    /\ Len(inbuf) = FixsliceBlocks - 1
    /\ \A j \in 1..Len(inbuf) : inbuf[j] # DefaultBlock
    /\ Len(cipher.obj.keys) = 13
    /\ outbuf # inbuf

(***************************************************************************)
(* The AES-NI round keys and the order the routines read them in           *)
(* (aes/src/ni/aes128.rs, aes192.rs, aes256.rs)                            *)
(***************************************************************************)
NiSchedKeys ==
    {[name |-> "Aes128", key |-> k] : k \in Block}
        \cup {[name |-> "Aes192", key |-> <<1, 2, 3>>],
              [name |-> "Aes192", key |-> <<0, 0, 0>>],
              [name |-> "Aes256", key |-> <<3, 0, 1, 2>>],
              [name |-> "Aes256", key |-> <<0, 0, 0, 0>>]}

NiRoutines == {"encrypt1", "encrypt8", "decrypt1", "decrypt8"}

NiEncryptRoutines == {"encrypt1", "encrypt8"}

\* ni::$name: encrypt1 / encrypt8 are called with &self.encrypt_keys, decrypt1 /
\* decrypt8 with &self.decrypt_keys
ni_routine_keys(self, routine) ==
    IF routine \in NiEncryptRoutines THEN self.encrypt_keys ELSE self.decrypt_keys

\* the index of the round key the pc-th instruction of a routine reads:
\* keys[0], keys[1], .. in encrypt1 / encrypt8; keys[last], keys[last - 1], .. in
\* decrypt1 / decrypt8
ni_key_index(routine, last, pc) ==
    IF routine \in NiEncryptRoutines THEN pc ELSE last - pc

\* the pc-th instruction of a routine on one register: _mm_xor_si128 first,
\* _mm_aesenclast_si128 / _mm_aesdeclast_si128 last, _mm_aesenc_si128 /
\* _mm_aesdec_si128 in between
ni_instruction(routine, last, pc, b, k) ==
    IF pc = 0 THEN _mm_xor_si128(b, k)
    ELSE IF routine \in NiEncryptRoutines
         THEN (IF pc = last THEN _mm_aesenclast_si128(b, k) ELSE _mm_aesenc_si128(b, k))
         ELSE (IF pc = last THEN _mm_aesdeclast_si128(b, k) ELSE _mm_aesdec_si128(b, k))

\* the blocks a routine is called on: one block, or a Block8
NiRequests(routine) ==
    IF routine \in {"encrypt1", "decrypt1"} THEN {<<b>> : b \in MsgBlocks}
    ELSE {Buffer(8, seed) : seed \in {1, 2}}

InitNiSched ==
    /\ cipher \in {[ty |-> "ni", name |-> nk.name, obj |-> ni_new(nk.name, nk.key)] :
                      nk \in NiSchedKeys}
    /\ inbuf = << >> /\ outbuf = << >> /\ singles = << >> /\ op = "idle"
    /\ encrypt = "none" /\ decrypt = "none"
    /\ pt = << >> /\ ct = << >> /\ rt = << >> /\ trace = << >> /\ given_iv = << >>
    /\ NoDispatch

\* a routine is entered: _mm_loadu_si128 / load8 of the input
NiCall ==
    /\ op = "idle"
    /\ \E routine \in NiRoutines :
          \E blocks \in NiRequests(routine) :
             /\ inbuf' = blocks
             /\ outbuf' = [j \in 1..Len(blocks) |-> _mm_loadu_si128(blocks[j])] \o << >>
             /\ op' = routine
    /\ trace' = << >> /\ singles' = << >>
    /\ UNCHANGED <<cipher, encrypt, decrypt, pt, ct, rt, given_iv, dispatchVars>>

\* the registers after the next instruction of the routine, which reads keys[i]
NiRegistersAfter(keys, pc, i) ==
    /\ outbuf' = [j \in 1..Len(outbuf) |->
                     ni_instruction(op, Len(keys) - 1, pc, outbuf[j], RK(keys, i))] \o << >>
    /\ trace' = Append(trace, i)

\* the next instruction of the routine
NiInstruction ==
    /\ op \in NiRoutines
    /\ singles = << >>
    /\ Len(trace) < Len(ni_routine_keys(cipher.obj, op))
    /\ NiRegistersAfter(ni_routine_keys(cipher.obj, op), Len(trace),
                        ni_key_index(op, Len(ni_routine_keys(cipher.obj, op)) - 1,
                                     Len(trace)))
    /\ UNCHANGED <<cipher, inbuf, singles, op, encrypt, decrypt, pt, ct, rt, given_iv,
                   dispatchVars>>

\* _mm_storeu_si128 / store8 of the registers
NiStore ==
    /\ op \in NiRoutines
    /\ singles = << >>
    /\ Len(trace) = Len(ni_routine_keys(cipher.obj, op))
    /\ singles' = [j \in 1..Len(outbuf) |-> _mm_storeu_si128(outbuf[j])] \o << >>
    /\ UNCHANGED <<cipher, inbuf, outbuf, op, modeVars, dispatchVars>>

\* the routine returns
NiReturn ==
    /\ op \in NiRoutines
    /\ singles # << >>
    /\ inbuf' = << >> /\ outbuf' = << >> /\ singles' = << >> /\ trace' = << >>
    /\ op' = "idle"
    /\ UNCHANGED <<cipher, encrypt, decrypt, pt, ct, rt, given_iv, dispatchVars>>

NextNiSched ==
    \/ NiCall
    \/ NiInstruction
    \/ NiStore
    \/ NiReturn

SpecNiSched == InitNiSched /\ [][NextNiSched]_vars

\* what the routine named op computes on the request, by the routines of the
\* single-block and eight-block operations
NiRoutineResult ==
    CASE op = "encrypt1" -> <<encrypt1(cipher.obj.encrypt_keys, inbuf[1])>>
      [] op = "decrypt1" -> <<decrypt1(cipher.obj.decrypt_keys, inbuf[1])>>
      [] op = "encrypt8" -> encrypt8(cipher.obj.encrypt_keys, inbuf)
      [] op = "decrypt8" -> decrypt8(cipher.obj.decrypt_keys, inbuf)

\* C29: expand() gives 11 / 13 / 15 round keys of each kind for AES-128 / 192 / 256;
\* the first and the last decryption key are the first and the last encryption key
\* and every decryption key in between is InvMixColumns of the encryption key of
\* its index; encrypt1 / encrypt8 read the encryption keys 0, 1, .., last in that
\* order and decrypt1 / decrypt8 read the decryption keys last, last - 1, .., 0, one
\* key an instruction, and what is stored is what the routine computes
NiKeySchedules ==
    LET enc  == cipher.obj.encrypt_keys
        dec  == cipher.obj.decrypt_keys
        last == Len(enc) - 1
    IN  /\ Len(enc) = (CASE cipher.name = "Aes128" -> 11
                         [] cipher.name = "Aes192" -> 13
                         [] cipher.name = "Aes256" -> 15)
        /\ Len(dec) = Len(enc)
        /\ RK(dec, 0) = RK(enc, 0)
        /\ RK(dec, last) = RK(enc, last)
        /\ \A i \in 1..(last - 1) :
              /\ RK(dec, i) = InvMixColumns(RK(enc, i))
              /\ MixColumns(RK(dec, i)) = RK(enc, i)
        /\ op \in NiRoutines =>
              /\ Len(trace) <= last + 1
              /\ \A n \in 1..Len(trace) :
                    trace[n] = IF op \in NiEncryptRoutines THEN n - 1 ELSE last - (n - 1)
              /\ singles # << >> =>
                    /\ Len(trace) = last + 1
                    /\ singles = NiRoutineResult

\* decrypt8 of Aes256 has stored its eight blocks, having read the keys from the
\* fourteenth down to key 0, and some key in between differs from the encryption
\* key of its index
Aes256Decrypt8Stored ==
    /\ op = "decrypt8"
    /\ cipher.name = "Aes256"
    /\ Len(singles) = 8
    /\ singles # inbuf
    /\ trace[1] = 14 /\ trace[15] = 0
    /\ \E i \in 1..13 : RK(cipher.obj.decrypt_keys, i) # RK(cipher.obj.encrypt_keys, i)

=============================================================================
